---- MODULE Spec2Model ----
(***************************************************************************)
(* Win32 event loop of winit (src/platform_impl/windows/event_loop.rs):    *)
(* the EventLoopRunner state machine, EventLoop::run_return's main loop,   *)
(* the window procedures that feed it, the re-entrancy buffer of ELRShared *)
(* and the user-event proxy.                                               *)
(***************************************************************************)
EXTENDS Integers, Sequences, FiniteSets, TLC

\* ---- bounds of the model ------------------------------------------------
MaxTime == 1        \* the clock runs over 0..MaxTime
MaxTrace == 5       \* at most this many events are delivered to the callback
MaxMsgs == 2        \* at most this many native messages / events are produced
MaxModal == 1       \* at most this many modal size/move loops are started
MaxWrites == 2      \* at most this many times the callback changes *control_flow
MaxNested == 1      \* at most this many events are produced from inside the callback
MaxPos == 4         \* a scroll valuator takes the values 0 .. MaxPos
MaxInc == 3         \* a scroll axis has an increment in 1 .. MaxInc
MaxMotions == 3     \* at most this many XI_Motion and XI_Enter events arrive
MantBits == 3       \* the significand of an f32 is modelled with this many bits
MaxDndMsgs == 4     \* at most this many XDnD messages are sent by drag sources
MaxPaths == 2       \* a drag carries at most this many paths
NumWindows == 2     \* this many X11 windows can be created
MaxXEvents == 2     \* at most this many other native X11 events arrive
MaxWakeups == 3     \* at most this many wakeup() calls are made
MaxOtherMsgs == 1   \* at most this many other ClientMessages arrive
NumProxies == 2     \* this many threads hold a clone of the EventLoopProxy
MaxXY == 1          \* a pointer position has its coordinates in 0 .. MaxXY
NumValuators == 2   \* the pointer device has this many valuators
MaxCursorEvents == 3 \* at most this many native pointer events arrive
MaxWidth == 2       \* a window is 1 .. MaxWidth wide
MaxConfigEvents == 4 \* at most this many ConfigureNotify / ReparentNotify events arrive
KeycodeSpan == 1    \* a native keycode is 0 or within this distance of 8
NumChars == 2       \* the input method writes characters out of this many
MaxWritten == 2     \* one keystroke is looked up as at most this many characters
MaxKeyEvents == 2   \* at most this many KeyPress / KeyRelease events arrive
MaxDpiFactor == 2   \* a DPI factor is in 1 .. MaxDpiFactor
MaxDpiMsgs == 2     \* at most this many DPI messages arrive
MaxCocoaTurns == 2  \* the Cocoa run loop wakes up at most this many times
MaxCocoaEvents == 3 \* at most this many events are queued in PendingEvents
MaxCocoaWrites == 2 \* at most this many handler calls change the control flow
MaxSecs == 17       \* a WaitUntil deadline is at most this many seconds (and a fraction) away
MaxBorrowMsgs == 3  \* at most this many window messages reach the window procedures
NumDropped == 3     \* this many X11 windows are created and dropped on other threads
MaxMouseMsgs == 5   \* at most this many WM_MOUSEMOVE / WM_MOUSELEAVE messages arrive
MaxRuns == 2        \* run_return is called at most this many times

\* Option::None of an Option<Instant>
NoTime == 0 - 1

Instants == 0 .. MaxTime
Deadlines == 1 .. MaxTime
Proxies == 1 .. NumProxies

\* ---- ControlFlow ---------------------------------------------------------
Poll == [t |-> "Poll", d |-> NoTime]
Wait == [t |-> "Wait", d |-> NoTime]
Exit == [t |-> "Exit", d |-> NoTime]
WaitUntil(d) == [t |-> "WaitUntil", d |-> d]
ControlFlow == {Poll, Wait, Exit} \cup {WaitUntil(d) : d \in Deadlines}

\* ---- RunnerState ---------------------------------------------------------
New == [s |-> "New", at |-> NoTime]
HandlingEvents == [s |-> "HandlingEvents", at |-> NoTime]
Idle(t) == [s |-> "Idle", at |-> t]
DeferredNewEvents(t) == [s |-> "DeferredNewEvents", at |-> t]

\* ---- Event ---------------------------------------------------------------
\* id: the number of the native message (or nested call) that produced the
\* event; by: the position in the delivered sequence of the callback call
\* that produced it synchronously (0 for events that come from the queue).
Event(k, id, by) ==
    [k |-> k, cause |-> "-", start |-> NoTime, resume |-> NoTime, id |-> id, by |-> by]
NewEvents(cause, start, resume) ==
    [k |-> "NewEvents", cause |-> cause, start |-> start, resume |-> resume, id |-> 0, by |-> 0]
EventsCleared == Event("EventsCleared", 0, 0)
LoopDestroyed == Event("LoopDestroyed", 0, 0)
WindowEvent(id, by) == Event("WindowEvent", id, by)
RedrawRequested(id) == Event("RedrawRequested", id, 0)
UserEvent(id) == Event("UserEvent", id, 0)

Lifecycle == {"NewEvents", "EventsCleared", "LoopDestroyed"}

\* ---- what the user callback does with one event --------------------------
\* cf: the value it leaves in *control_flow; nest: whether it makes a call
\* that sends a window message synchronously (the window procedure then runs
\* inside the callback and calls ELRShared::send_event).

VARIABLES
    runner_some,      \* ELRShared.runner is Some(..)
    runner_state,     \* EventLoopRunner.runner_state
    control_flow,     \* EventLoopRunner.control_flow
    in_modal_loop,    \* EventLoopRunner.in_modal_loop
    buffer,           \* ELRShared.buffer
    trigger,          \* EventLoop.trigger_newevents_on_redraw
    redraw_pending,   \* an internal paint is pending on modal_redraw_window
    chan,             \* the user-event channel (thread_msg_sender -> user_event_receiver)
    panicked,         \* the loop thread panicked
    delivered,        \* every call of the user callback, in order
    next_id,          \* number of the next native message / event
    nested,           \* number of events produced from inside the callback
    writes,           \* number of times the callback changed *control_flow
    pc,               \* where the loop thread is in run_return
    msg,              \* run_return's local msg
    msg_unprocessed,  \* run_return's local msg_unprocessed
    msgq,             \* the thread's native message queue
    now,              \* Instant::now()
    runs,             \* number of run_return calls so far
    proxy_pc,         \* per proxy thread: 0 when idle, else the payload it is about to send
    dropped,          \* the EventLoop has been dropped
    enq,              \* every payload put into the channel, in order
    returned,         \* the send_event calls that returned, with their results
    modals            \* number of modal size/move loops started

\* the proxy threads and what they have done
pvars == <<proxy_pc, dropped, enq, returned>>

wvars == <<runner_some, runner_state, control_flow, in_modal_loop, buffer, trigger,
           redraw_pending, chan, panicked, delivered, next_id, nested, writes>>
vars == <<runner_some, runner_state, control_flow, in_modal_loop, buffer, trigger,
          redraw_pending, chan, panicked, delivered, next_id, nested, writes,
          pc, msg, msg_unprocessed, msgq, now, runs, proxy_pc, dropped, enq, returned,
          modals>>

\* ---- X11: EventsLoop and EventsLoopProxy (wakeup) --------------------------
VARIABLES
    pending_wakeup,   \* EventsLoop.pending_wakeup (AtomicBool)
    loop_alive,       \* the EventsLoop has not been dropped
    xqueue,           \* the ClientMessage events queued on the X connection
    xpc,              \* the dispatcher: "next" at XNextEvent, "store" after loading true
    awakened,         \* number of Event::Awakened delivered
    wakeup_pc,        \* per proxy thread: "idle", or "send" after storing the flag
    wakeup_calls,     \* number of wakeup() calls that stored the flag
    wakeup_closed,    \* number of wakeup() calls that returned EventsLoopClosed
    owed,             \* proxy threads that stored the flag with no Awakened since
    other_msgs        \* number of other ClientMessages received

wkvars == <<pending_wakeup, loop_alive, xqueue, xpc, awakened, wakeup_pc, wakeup_calls,
            wakeup_closed, owed, other_msgs>>

\* ---- X11: the window registry ---------------------------------------------
VARIABLES
    xwindows,         \* the keys of EventsLoop.windows
    xcreated,         \* the windows for which Window::new has run
    xhandles,         \* the windows whose Window has not been dropped
    xserver,          \* the windows that exist in the X server
    xevq,             \* the native events queued for the dispatcher
    xsent,            \* number of native events queued by the environment
    xdelivered        \* the events handed to the callback, in order

wnvars == <<xwindows, xcreated, xhandles, xserver, xevq, xsent, xdelivered>>

\* ---- X11: drag and drop (the receiver side of XDnD) ------------------------
VARIABLES
    dnd_type_list,    \* Dnd.type_list: "None", or whether it contains the uri-list atom
    dnd_source_window,\* Dnd.source_window is Some(..)
    dnd_result,       \* Dnd.result
    dnd_pending,      \* selection conversions requested and not yet answered
    dnd_q,            \* the XDnD ClientMessages and SelectionNotify events queued
    dnd_log,          \* the events processed and what process_event did for them
    dnd_sent,         \* number of XDnD messages sent by drag sources
    drag_paths        \* the paths of the drag that is going on

dndvars == <<dnd_type_list, dnd_source_window, dnd_result, dnd_pending, dnd_q, dnd_log,
             dnd_sent, drag_paths>>

\* ---- X11: one scroll axis of one physical device --------------------------
VARIABLES
    axis,             \* ScrollAxis {increment, orientation, position}, or not yet built
    valuator,         \* the value of the valuator in the X server
    reset_position,   \* the value cached by the last reset_scroll_position
    wheel_sum,        \* sum of the LineDelta components emitted since then (1/Unit)
    travel,           \* sum of |x - position| over the XI_Motion events since then
    wheel_log,        \* the MouseWheel events emitted since then, in order
    motions           \* number of XI_Motion and XI_Enter events so far

scvars == <<axis, valuator, reset_position, wheel_sum, travel, wheel_log, motions>>


\* ---- X11: the cursor position cached for one window -----------------------
VARIABLES
    cur_window,       \* "none", "registered" (in EventsLoop.windows) or "removed"
    cursor_pos,       \* WindowData.cursor_pos: NoPos, or the position cached
    cur_last,         \* the last native event processed and what was emitted for it
    cur_moved,        \* the positions of the CursorMoved events emitted, in order
    cur_n             \* number of native pointer events processed

cuvars == <<cur_window, cursor_pos, cur_last, cur_moved, cur_n>>


\* ---- X11: the configuration cached for one window -------------------------
VARIABLES
    cfg_window,       \* "none", "registered" (in EventsLoop.windows) or "removed"
    config,           \* WindowData.config: size, position, inner_position
    frame_extents,    \* the shared state of the window holds frame extents
    cfg_last,         \* the last ConfigureNotify processed and what it did
    cfg_n             \* number of ConfigureNotify and ReparentNotify events processed

cfvars == <<cfg_window, config, frame_extents, cfg_last, cfg_n>>


\* ---- X11: key events of one window ----------------------------------------
VARIABLES
    key_window,       \* "none", "created" (it has an input context) or "destroyed"
    key_last,         \* the last KeyPress / KeyRelease processed and what was emitted
    key_panicked,     \* process_event panicked on an arithmetic overflow
    key_n             \* number of KeyPress / KeyRelease events processed

kyvars == <<key_window, key_last, key_panicked, key_n>>


\* ---- Win32: mouse capture of one window -----------------------------------
VARIABLES
    mouse_buttons_down, \* WindowState.mouse_buttons_down
    mouse_captured,   \* the window holds the mouse capture
    mouse_held,       \* the buttons held now that were pressed on the window
    mouse_elsewhere,  \* the buttons held now that were pressed somewhere else
    mouse_last        \* the last button message processed and whether it released

msvars == <<mouse_buttons_down, mouse_captured, mouse_held, mouse_elsewhere, mouse_last>>


\* ---- Win32: the DPI of one window -----------------------------------------
VARIABLES
    dpi_factor,       \* WindowState.dpi_factor
    saved_window_info,\* WindowState.saved_window_info (is_fullscreen, dpi_factor)
    min_size,         \* WindowState.min_size, a width as a fraction
    max_size,         \* WindowState.max_size
    dpi_log,          \* the events sent for the window, each with the message causing it
    dpi_last,         \* the last DPI message processed
    dpi_n             \* number of DPI messages processed

dpvars == <<dpi_factor, saved_window_info, min_size, max_size, dpi_log, dpi_last, dpi_n>>


\* ---- Cocoa: Handler and PendingEvents --------------------------------------
VARIABLES
    co_control_flow,  \* Handler.control_flow
    co_control_flow_prev, \* Handler.control_flow_prev
    co_callback,      \* Handler.callback is Some
    co_waker,         \* what the EventLoopWaker was last told
    co_pending,       \* PendingEvents.pending
    co_delivered,     \* the events handed to the callback, in order
    co_returned,      \* the event translate_event last returned to its caller
    co_phase,         \* where the run loop is
    co_stop,          \* NSApp stop: has been sent
    co_panicked,      \* a handler hit unimplemented!()
    co_turns,         \* number of wakeup calls
    co_queued,        \* number of events queued so far
    co_writes         \* number of handler calls that changed the control flow

covars == <<co_control_flow, co_control_flow_prev, co_callback, co_waker, co_pending,
            co_delivered, co_returned, co_phase, co_stop, co_panicked, co_turns,
            co_queued, co_writes>>


\* ---- Win32: the timeout of wait_until_time_or_msg ---------------------------
VARIABLES
    tm_last           \* the last wait_until_time_or_msg call: its input and what it did

tmvars == <<tm_last>>


\* ---- Win32: the RefCell that holds the runner -------------------------------
VARIABLES
    rb_borrowed,      \* ELRShared.runner is mutably borrowed
    rb_holder,        \* the hook or handler that holds the borrow
    rb_in_callback,   \* the loop thread is inside the user callback
    rb_in_modal_loop, \* EventLoopRunner.in_modal_loop
    rb_buffered,      \* number of events pushed onto ELRShared.buffer
    rb_panicked,      \* borrow_mut found the cell borrowed (BorrowMutError)
    rb_last,          \* the last message a window procedure was called with
    rb_n              \* number of messages that reached a window procedure

rbvars == <<rb_borrowed, rb_holder, rb_in_callback, rb_in_modal_loop, rb_buffered,
            rb_panicked, rb_last, rb_n>>


\* ---- X11: a Window dropped while the dispatcher runs ------------------------
VARIABLES
    wd_handle,        \* per window: the Window is "none", "alive", "removing" or "dropped"
    wd_registry,      \* the keys of EventsLoop.windows
    wd_lock,          \* the window whose Drop holds the lock of EventsLoop.windows, or 0
    wd_server,        \* the windows that exist in the X server
    wd_evq,           \* the DestroyNotify events queued for the dispatcher
    wd_hist           \* per window: removals of its entry, XDestroyWindow calls, ...

wdvars == <<wd_handle, wd_registry, wd_lock, wd_server, wd_evq, wd_hist>>


\* ---- Win32: the cursor entering and leaving one window ----------------------
VARIABLES
    mouse_in_window,  \* WindowState.mouse_in_window
    me_log,           \* the events sent for the window, in order
    me_n              \* number of WM_MOUSEMOVE / WM_MOUSELEAVE messages processed

mevars == <<mouse_in_window, me_log, me_n>>

\* the variables of the other event loops, which the Win32 loop leaves alone
ovars == <<wkvars, wnvars, dndvars, scvars,
           cuvars, cfvars, kyvars, msvars, dpvars, covars, tmvars, rbvars, wdvars, mevars>>

\* The choices that can differ in effect in the current state.
Choices ==
    [cf : IF writes < MaxWrites THEN ControlFlow ELSE {control_flow},
     nest : IF nested < MaxNested /\ next_id <= MaxMsgs THEN BOOLEAN ELSE {FALSE}]

\* The runner, the shared cell and what the callback has seen, as one value
\* that the operators below transform.
World ==
    [some |-> runner_some, runner_state |-> runner_state, control_flow |-> control_flow,
     in_modal_loop |-> in_modal_loop, buffer |-> buffer, trigger |-> trigger,
     redraw_pending |-> redraw_pending, chan |-> chan, panicked |-> panicked,
     delivered |-> delivered, next_id |-> next_id, nested |-> nested, writes |-> writes]

\* (the model stops delivering events once MaxTrace have been delivered)
Commit(W) ==
    /\ Len(W.delivered) <= MaxTrace
    /\ runner_some' = W.some
    /\ runner_state' = W.runner_state
    /\ control_flow' = W.control_flow
    /\ in_modal_loop' = W.in_modal_loop
    /\ buffer' = W.buffer
    /\ trigger' = W.trigger
    /\ redraw_pending' = W.redraw_pending
    /\ chan' = W.chan
    /\ panicked' = W.panicked
    /\ delivered' = W.delivered
    /\ next_id' = W.next_id
    /\ nested' = W.nested
    /\ writes' = W.writes

\* call_event_handler handing the callback the runner's control flow even
\* when it is Exit
call_event_handler_HandsExit(W, event, ch, t) ==
    LET write == ch.cf # W.control_flow /\ W.writes < MaxWrites
        cf == IF write THEN ch.cf ELSE W.control_flow
        pos == Len(W.delivered) + 1
        nest == ch.nest /\ W.nested < MaxNested /\ W.next_id <= MaxMsgs
    IN [W EXCEPT
          !.trigger = IF event.k = "NewEvents" THEN TRUE
                      ELSE IF event.k = "EventsCleared" THEN FALSE ELSE @,
          !.control_flow = cf,
          !.delivered = Append(@, [ev |-> event, cf |-> cf, st |-> W.runner_state.s, at |-> t]),
          !.buffer = IF nest THEN Append(@, WindowEvent(W.next_id, pos)) ELSE @,
          !.next_id = IF nest THEN @ + 1 ELSE @,
          !.nested = IF nest THEN @ + 1 ELSE @,
          !.writes = IF write THEN @ + 1 ELSE @]

\* call_event_handler with the callback not called at all once the control
\* flow is Exit
call_event_handler_SkipsAfterExit(W, event, ch, t) ==
    LET write == ch.cf # W.control_flow /\ W.writes < MaxWrites
        cf == IF write THEN ch.cf ELSE W.control_flow
        pos == Len(W.delivered) + 1
        nest == ch.nest /\ W.nested < MaxNested /\ W.next_id <= MaxMsgs
    IN IF W.control_flow = Exit THEN W
       ELSE [W EXCEPT
          !.trigger = IF event.k = "NewEvents" THEN TRUE
                      ELSE IF event.k = "EventsCleared" THEN FALSE ELSE @,
          !.control_flow = cf,
          !.delivered = Append(@, [ev |-> event, cf |-> cf, st |-> W.runner_state.s, at |-> t]),
          !.buffer = IF nest THEN Append(@, WindowEvent(W.next_id, pos)) ELSE @,
          !.next_id = IF nest THEN @ + 1 ELSE @,
          !.nested = IF nest THEN @ + 1 ELSE @,
          !.writes = IF write THEN @ + 1 ELSE @]

\* ---- EventLoopRunner::call_event_handler ---------------------------------
\* The callback is handed &mut self.control_flow unless that is already
\* Exit, in which case it is handed a temporary.  The runner is mutably
\* borrowed for the whole call, so a window message sent synchronously from
\* inside the callback reaches ELRShared::send_event with try_borrow_mut
\* failing and is pushed onto the buffer.
call_event_handler(W, event, ch, t) ==
    LET write == W.control_flow # Exit /\ ch.cf # W.control_flow /\ W.writes < MaxWrites
        cf == IF write THEN ch.cf ELSE W.control_flow
        pos == Len(W.delivered) + 1
        nest == ch.nest /\ W.nested < MaxNested /\ W.next_id <= MaxMsgs
    IN [W EXCEPT
          !.trigger = IF event.k = "NewEvents" THEN TRUE
                      ELSE IF event.k = "EventsCleared" THEN FALSE ELSE @,
          !.control_flow = cf,
          !.delivered = Append(@, [ev |-> event, cf |-> cf, st |-> W.runner_state.s, at |-> t]),
          !.buffer = IF nest THEN Append(@, WindowEvent(W.next_id, pos)) ELSE @,
          !.next_id = IF nest THEN @ + 1 ELSE @,
          !.nested = IF nest THEN @ + 1 ELSE @,
          !.writes = IF write THEN @ + 1 ELSE @]

\* new_events reporting the current time as the start of the wait
new_events_StartNow(W, ch, t) ==
    LET st == W.runner_state
        cf == W.control_flow
    IN CASE st.s \in {"HandlingEvents", "DeferredNewEvents"} -> W
         [] st.s = "New" ->
              [call_event_handler(W, NewEvents("Init", NoTime, NoTime), ch, t)
                 EXCEPT !.runner_state = HandlingEvents]
         [] st.s = "Idle" /\ cf = Poll ->
              [call_event_handler(W, NewEvents("Poll", NoTime, NoTime), ch, t)
                 EXCEPT !.runner_state = HandlingEvents]
         [] st.s = "Idle" /\ cf.t = "WaitUntil" /\ t >= cf.d ->
              [call_event_handler(W, NewEvents("ResumeTimeReached", t, cf.d), ch, t)
                 EXCEPT !.runner_state = HandlingEvents]
         [] st.s = "Idle" /\ cf.t = "WaitUntil" /\ t < cf.d ->
              [W EXCEPT !.runner_state = DeferredNewEvents(st.at)]
         [] st.s = "Idle" /\ cf \in {Wait, Exit} ->
              [W EXCEPT !.runner_state = DeferredNewEvents(st.at)]

\* new_events deferring NewEvents under Poll as it does under Wait
new_events_DefersPoll(W, ch, t) ==
    LET st == W.runner_state
        cf == W.control_flow
    IN CASE st.s \in {"HandlingEvents", "DeferredNewEvents"} -> W
         [] st.s = "New" ->
              [call_event_handler(W, NewEvents("Init", NoTime, NoTime), ch, t)
                 EXCEPT !.runner_state = HandlingEvents]
         [] st.s = "Idle" /\ cf.t = "WaitUntil" /\ t >= cf.d ->
              [call_event_handler(W, NewEvents("ResumeTimeReached", st.at, cf.d), ch, t)
                 EXCEPT !.runner_state = HandlingEvents]
         [] st.s = "Idle" /\ cf.t = "WaitUntil" /\ t < cf.d ->
              [W EXCEPT !.runner_state = DeferredNewEvents(st.at)]
         [] st.s = "Idle" /\ cf \in {Poll, Wait, Exit} ->
              [W EXCEPT !.runner_state = DeferredNewEvents(st.at)]

\* ---- EventLoopRunner::new_events -----------------------------------------
new_events(W, ch, t) ==
    LET st == W.runner_state
        cf == W.control_flow
    IN CASE st.s \in {"HandlingEvents", "DeferredNewEvents"} -> W
         [] st.s = "New" ->
              [call_event_handler(W, NewEvents("Init", NoTime, NoTime), ch, t)
                 EXCEPT !.runner_state = HandlingEvents]
         [] st.s = "Idle" /\ cf = Poll ->
              [call_event_handler(W, NewEvents("Poll", NoTime, NoTime), ch, t)
                 EXCEPT !.runner_state = HandlingEvents]
         [] st.s = "Idle" /\ cf.t = "WaitUntil" /\ t >= cf.d ->
              [call_event_handler(W, NewEvents("ResumeTimeReached", st.at, cf.d), ch, t)
                 EXCEPT !.runner_state = HandlingEvents]
         [] st.s = "Idle" /\ cf.t = "WaitUntil" /\ t < cf.d ->
              [W EXCEPT !.runner_state = DeferredNewEvents(st.at)]
         [] st.s = "Idle" /\ cf \in {Wait, Exit} ->
              [W EXCEPT !.runner_state = DeferredNewEvents(st.at)]

\* ---- EventLoopRunner::process_event --------------------------------------
\* DeferredCause dropping the requested resume time of a cancelled WaitUntil
DeferredCause_NoResume(cf, wait_start, t) ==
    CASE cf = Wait -> NewEvents("WaitCancelled", wait_start, NoTime)
      [] cf.t = "WaitUntil" /\ t >= cf.d -> NewEvents("ResumeTimeReached", wait_start, cf.d)
      [] cf.t = "WaitUntil" /\ t < cf.d -> NewEvents("WaitCancelled", wait_start, NoTime)
      [] cf = Poll -> NewEvents("Poll", NoTime, NoTime)

\* DeferredCause reporting a cancelled Wait as a Poll
DeferredCause_WaitAsPoll(cf, wait_start, t) ==
    CASE cf.t = "WaitUntil" /\ t >= cf.d -> NewEvents("ResumeTimeReached", wait_start, cf.d)
      [] cf.t = "WaitUntil" /\ t < cf.d -> NewEvents("WaitCancelled", wait_start, cf.d)
      [] cf \in {Poll, Wait} -> NewEvents("Poll", NoTime, NoTime)

\* The NewEvents that was deferred, for the control flow cf (not Exit).
DeferredCause(cf, wait_start, t) ==
    CASE cf = Wait -> NewEvents("WaitCancelled", wait_start, NoTime)
      [] cf.t = "WaitUntil" /\ t >= cf.d -> NewEvents("ResumeTimeReached", wait_start, cf.d)
      [] cf.t = "WaitUntil" /\ t < cf.d -> NewEvents("WaitCancelled", wait_start, cf.d)
      [] cf = Poll -> NewEvents("Poll", NoTime, NoTime)

\* process_event calling the callback before it moves to HandlingEvents
process_event_StateSetLate(W, event, ch1, ch2, t) ==
    LET W0 == IF W.in_modal_loop THEN [W EXCEPT !.redraw_pending = TRUE] ELSE W
        W1 == new_events(W0, ch1, t)
    IN IF W1.runner_state.s = "DeferredNewEvents" /\ W1.control_flow = Exit
       THEN [W1 EXCEPT !.panicked = TRUE]
       ELSE LET W2 == IF W1.runner_state.s = "DeferredNewEvents"
                      THEN call_event_handler(
                               W1, DeferredCause(W1.control_flow, W1.runner_state.at, t), ch1, t)
                      ELSE W1
            IN [call_event_handler(W2, event, ch2, t) EXCEPT !.runner_state = HandlingEvents]

process_event(W, event, ch1, ch2, t) ==
    LET W0 == IF W.in_modal_loop THEN [W EXCEPT !.redraw_pending = TRUE] ELSE W
        W1 == new_events(W0, ch1, t)
    IN IF W1.runner_state.s = "DeferredNewEvents" /\ W1.control_flow = Exit
       THEN [W1 EXCEPT !.panicked = TRUE]     \* unreachable!()
       ELSE LET W2 == IF W1.runner_state.s = "DeferredNewEvents"
                      THEN call_event_handler(
                               W1, DeferredCause(W1.control_flow, W1.runner_state.at, t), ch1, t)
                      ELSE W1
                W3 == [W2 EXCEPT !.runner_state = HandlingEvents]
            IN call_event_handler(W3, event, ch2, t)

\* events_cleared starting a new idle period when nothing was delivered
events_cleared_RestartsIdle(W, ch1, ch2, t) ==
    LET st == W.runner_state
        cf == W.control_flow
    IN CASE st.s = "HandlingEvents" ->
              [call_event_handler(W, EventsCleared, ch1, t) EXCEPT !.runner_state = Idle(t)]
         [] st.s \in {"New", "Idle"} -> W
         [] st.s = "DeferredNewEvents" ->
              LET W1 == CASE cf = Poll ->
                               call_event_handler(
                                   call_event_handler(W, NewEvents("Poll", NoTime, NoTime), ch1, t),
                                   EventsCleared, ch2, t)
                          [] cf.t = "WaitUntil" /\ t >= cf.d ->
                               call_event_handler(
                                   call_event_handler(
                                       W, NewEvents("ResumeTimeReached", st.at, cf.d), ch1, t),
                                   EventsCleared, ch2, t)
                          [] OTHER -> W
              IN [W1 EXCEPT !.runner_state = Idle(t)]

\* events_cleared sending only EventsCleared for a deferred Poll
events_cleared_NoNewEvents(W, ch1, ch2, t) ==
    LET st == W.runner_state
        cf == W.control_flow
    IN CASE st.s = "HandlingEvents" ->
              [call_event_handler(W, EventsCleared, ch1, t) EXCEPT !.runner_state = Idle(t)]
         [] st.s \in {"New", "Idle"} -> W
         [] st.s = "DeferredNewEvents" ->
              LET W1 == CASE cf = Poll -> call_event_handler(W, EventsCleared, ch2, t)
                          [] cf.t = "WaitUntil" /\ t >= cf.d ->
                               call_event_handler(
                                   call_event_handler(
                                       W, NewEvents("ResumeTimeReached", st.at, cf.d), ch1, t),
                                   EventsCleared, ch2, t)
                          [] OTHER -> W
              IN [W1 EXCEPT !.runner_state = Idle(st.at)]

\* ---- EventLoopRunner::events_cleared -------------------------------------
events_cleared(W, ch1, ch2, t) ==
    LET st == W.runner_state
        cf == W.control_flow
    IN CASE st.s = "HandlingEvents" ->
              [call_event_handler(W, EventsCleared, ch1, t) EXCEPT !.runner_state = Idle(t)]
         [] st.s \in {"New", "Idle"} -> W
         [] st.s = "DeferredNewEvents" ->
              LET W1 == CASE cf = Poll ->
                               call_event_handler(
                                   call_event_handler(W, NewEvents("Poll", NoTime, NoTime), ch1, t),
                                   EventsCleared, ch2, t)
                          [] cf.t = "WaitUntil" /\ t >= cf.d ->
                               call_event_handler(
                                   call_event_handler(
                                       W, NewEvents("ResumeTimeReached", st.at, cf.d), ch1, t),
                                   EventsCleared, ch2, t)
                          [] OTHER -> W
              IN [W1 EXCEPT !.runner_state = Idle(st.at)]

\* ---- ELRShared::send_event -----------------------------------------------
\* Called by a window procedure that the loop thread dispatched itself, so
\* try_borrow_mut succeeds; the calls made from inside the callback, where
\* it fails, are in call_event_handler.
send_event(W, event, ch1, ch2, t) ==
    IF W.some
    THEN process_event(W, event, ch1, ch2, t)
    ELSE [W EXCEPT !.buffer = Append(@, event)]

\* ---- native messages ------------------------------------------------------
\* Input: a window message that yields one WindowEvent (WM_CLOSE, ...);
\* Paint: WM_PAINT of a user window; RedrawNoNewEvents: the
\* REQUEST_REDRAW_NO_NEWEVENTS message; SizeMove: a message whose default
\* processing starts the modal size/move loop (it sends WM_ENTERSIZEMOVE);
\* User: USER_EVENT_MSG_ID; Quit: WM_QUIT.
PostedKinds == {"Input", "Paint", "RedrawNoNewEvents", "Quit"}
Message(k, id) == [k |-> k, id |-> id]
NoMsg == Message("None", 0)

\* ---- public_window_callback ----------------------------------------------
public_window_callback(W, m, ch1, ch2, t) ==
    CASE m.k = "Input" -> send_event(W, WindowEvent(m.id, 0), ch1, ch2, t)
      [] m.k = "Paint" ->
           IF ~W.some THEN W
           ELSE IF W.runner_state.s \in {"Idle", "DeferredNewEvents"}
                THEN call_event_handler(W, RedrawRequested(m.id), ch1, t)
                ELSE send_event(W, RedrawRequested(m.id), ch1, ch2, t)
      [] m.k = "RedrawNoNewEvents" ->
           IF W.some /\ W.runner_state.s \in {"Idle", "DeferredNewEvents"}
           THEN call_event_handler(W, RedrawRequested(m.id), ch1, t)
           ELSE W
      [] m.k = "SizeMove" -> IF W.some THEN [W EXCEPT !.in_modal_loop = TRUE] ELSE W
      [] OTHER -> W

\* WM_EXITSIZEMOVE
exit_size_move(W) == IF W.some THEN [W EXCEPT !.in_modal_loop = FALSE] ELSE W

\* ---- thread_event_target_callback, USER_EVENT_MSG_ID ---------------------
\* recv() blocks until a payload is in the channel (CanDispatch).
\* (recv() taking the payload sent last instead of the one sent first)
thread_event_target_callback_TakesNewest(W, m, ch1, ch2, t) ==
    IF m.k = "User"
    THEN send_event([W EXCEPT !.chan = SubSeq(@, 1, Len(@) - 1)],
                    UserEvent(W.chan[Len(W.chan)]), ch1, ch2, t)
    ELSE W

thread_event_target_callback(W, m, ch1, ch2, t) ==
    IF m.k = "User"
    THEN send_event([W EXCEPT !.chan = Tail(@)], UserEvent(Head(W.chan)), ch1, ch2, t)
    ELSE W

CanDispatch(m) == m.k = "User" => chan # <<>>

\* DispatchMessageW: a thread message (WM_QUIT) reaches no window procedure.
DispatchMessage(W, m, ch1, ch2, t) ==
    CASE m.k = "User" -> thread_event_target_callback(W, m, ch1, ch2, t)
      [] m.k = "Quit" -> W
      [] OTHER -> public_window_callback(W, m, ch1, ch2, t)

lvars == <<pc, msg, msg_unprocessed, msgq, now, runs, pvars, modals>>

\* ---- EventLoop::run_return -----------------------------------------------
\* The runner is built and the shared cell borrowed; the cell stays None
\* until the buffer has been flushed.
RunReturn ==
    /\ ~panicked
    /\ UNCHANGED ovars
    /\ pc = "norun" /\ runs < MaxRuns /\ ~dropped
    /\ runs' = runs + 1
    /\ runner_state' = New
    /\ control_flow' = Poll
    /\ in_modal_loop' = FALSE
    /\ pc' = "flush"
    /\ UNCHANGED <<runner_some, buffer, trigger, redraw_pending, chan, panicked, delivered,
                   next_id, nested, writes, msg, msg_unprocessed, msgq, now, pvars, modals>>

\* one iteration of the flush loop
FlushOne ==
    /\ ~panicked
    /\ UNCHANGED ovars
    /\ pc = "flush" /\ buffer # <<>>
    /\ \E ch1, ch2 \in Choices :
          Commit(process_event([World EXCEPT !.buffer = Tail(@)], Head(buffer), ch1, ch2, now))
    /\ UNCHANGED lvars

FlushDone ==
    /\ ~panicked
    /\ UNCHANGED ovars
    /\ pc = "flush" /\ buffer = <<>>
    /\ runner_some' = TRUE
    /\ pc' = "new_events"
    /\ UNCHANGED <<runner_state, control_flow, in_modal_loop, buffer, trigger, redraw_pending,
                   chan, panicked, delivered, next_id, nested, writes,
                   msg, msg_unprocessed, msgq, now, runs, pvars, modals>>

\* 'main: loop { runner!().new_events();
LoopNewEvents ==
    /\ ~panicked
    /\ UNCHANGED ovars
    /\ pc = "new_events"
    /\ \E ch \in Choices : Commit(new_events(World, ch, now))
    /\ pc' = "peek"
    /\ UNCHANGED <<msg, msg_unprocessed, msgq, now, runs, pvars, modals>>

\* the inner loop leaving 'main as soon as the control flow is Exit
LoopDispatch_BreaksOnExit ==
    /\ ~panicked
    /\ UNCHANGED ovars
    /\ pc = "peek"
    /\ msg_unprocessed \/ msgq # <<>>
    /\ LET m == IF msg_unprocessed THEN msg ELSE Head(msgq)
       IN /\ CanDispatch(m)
          /\ \E ch1, ch2 \in Choices :
                LET W == DispatchMessage(World, m, ch1, ch2, now)
                IN /\ Commit(W)
                   /\ pc' = IF W.control_flow = Exit THEN "destroy"
                            ELSE IF m.k = "SizeMove" THEN "modal" ELSE "peek"
          /\ msgq' = IF msg_unprocessed THEN msgq ELSE Tail(msgq)
    /\ msg' = NoMsg
    /\ msg_unprocessed' = FALSE
    /\ UNCHANGED <<now, runs, pvars, modals>>

\* the inner loop: PeekMessageW (unless msg_unprocessed), DispatchMessageW
LoopDispatch ==
    /\ ~panicked
    /\ UNCHANGED ovars
    /\ pc = "peek"
    /\ msg_unprocessed \/ msgq # <<>>
    /\ LET m == IF msg_unprocessed THEN msg ELSE Head(msgq)
       IN /\ CanDispatch(m)
          /\ \E ch1, ch2 \in Choices : Commit(DispatchMessage(World, m, ch1, ch2, now))
          /\ msgq' = IF msg_unprocessed THEN msgq ELSE Tail(msgq)
          /\ pc' = IF m.k = "SizeMove" THEN "modal" ELSE "peek"
    /\ msg' = NoMsg
    /\ msg_unprocessed' = FALSE
    /\ UNCHANGED <<now, runs, pvars, modals>>

\* WM_PAINT of the thread message target outside the modal loop: validated,
\* nothing else.
LoopThreadPaint ==
    /\ ~panicked
    /\ UNCHANGED ovars
    /\ pc = "peek" /\ ~msg_unprocessed /\ msgq = <<>> /\ redraw_pending
    /\ redraw_pending' = FALSE
    /\ UNCHANGED <<runner_some, runner_state, control_flow, in_modal_loop, buffer, trigger,
                   chan, panicked, delivered, next_id, nested, writes>>
    /\ UNCHANGED lvars

NextPc(cf) ==
    CASE cf = Exit -> "destroy"
      [] cf = Wait -> "get_message"
      [] cf.t = "WaitUntil" -> "wait_until"
      [] cf = Poll -> "new_events"

\* PeekMessageW returns 0: runner!().events_cleared(); match control_flow
LoopEventsCleared ==
    /\ ~panicked
    /\ UNCHANGED ovars
    /\ pc = "peek" /\ ~msg_unprocessed /\ msgq = <<>> /\ ~redraw_pending
    /\ \E ch1, ch2 \in Choices :
          LET W == events_cleared(World, ch1, ch2, now)
          IN Commit(W) /\ pc' = NextPc(W.control_flow)
    /\ UNCHANGED <<msg, msg_unprocessed, msgq, now, runs, pvars, modals>>

\* ControlFlow::Wait: GetMessageW blocks; WM_QUIT makes it return 0
LoopGetMessage ==
    /\ ~panicked
    /\ UNCHANGED ovars
    /\ pc = "get_message" /\ msgq # <<>>
    /\ msgq' = Tail(msgq)
    /\ IF Head(msgq).k = "Quit"
       THEN pc' = "destroy" /\ UNCHANGED <<msg, msg_unprocessed>>
       ELSE pc' = "new_events" /\ msg' = Head(msgq) /\ msg_unprocessed' = TRUE
    /\ UNCHANGED wvars
    /\ UNCHANGED <<now, runs, pvars, modals>>

\* ControlFlow::WaitUntil: wait_until_time_or_msg
LoopWaitUntil ==
    /\ ~panicked
    /\ UNCHANGED ovars
    /\ pc = "wait_until"
    /\ msgq # <<>> \/ now >= control_flow.d
    /\ pc' = "new_events"
    /\ UNCHANGED wvars
    /\ UNCHANGED <<msg, msg_unprocessed, msgq, now, runs, pvars, modals>>

\* LoopDestroyed delivered, but the loop entered again
LoopDestroy_KeepsRunning ==
    /\ ~panicked
    /\ UNCHANGED ovars
    /\ pc = "destroy"
    /\ \E ch \in Choices : Commit(call_event_handler(World, LoopDestroyed, ch, now))
    /\ pc' = "new_events"
    /\ msg' = NoMsg /\ msg_unprocessed' = FALSE
    /\ UNCHANGED <<msgq, now, runs, pvars, modals>>

\* after 'main: call_event_handler(LoopDestroyed); *runner = None
LoopDestroy ==
    /\ ~panicked
    /\ UNCHANGED ovars
    /\ pc = "destroy"
    /\ \E ch \in Choices :
          Commit([call_event_handler(World, LoopDestroyed, ch, now) EXCEPT !.some = FALSE])
    /\ pc' = "norun"
    /\ msg' = NoMsg /\ msg_unprocessed' = FALSE
    /\ UNCHANGED <<msgq, now, runs, pvars, modals>>

\* ---- the modal size/move loop --------------------------------------------
\* Entered inside DispatchMessageW (pc = "modal"); it gets and dispatches the
\* thread's messages itself until the move ends (WM_EXITSIZEMOVE) or a
\* WM_QUIT is seen, which it leaves in the queue.
ModalDispatch ==
    /\ ~panicked
    /\ UNCHANGED ovars
    /\ pc = "modal" /\ msgq # <<>> /\ Head(msgq).k # "Quit"
    /\ CanDispatch(Head(msgq))
    /\ \E ch1, ch2 \in Choices : Commit(DispatchMessage(World, Head(msgq), ch1, ch2, now))
    /\ msgq' = Tail(msgq)
    /\ UNCHANGED <<pc, msg, msg_unprocessed, now, runs, pvars, modals>>

ModalExit ==
    /\ ~panicked
    /\ UNCHANGED ovars
    /\ pc = "modal"
    /\ Commit(exit_size_move(World))
    /\ pc' = "peek"
    /\ UNCHANGED <<msg, msg_unprocessed, msgq, now, runs, pvars, modals>>

\* thread_event_target_callback, WM_PAINT: generated when no other message
\* is queued.  ValidateRect, then the PeekMessageW loop.
ThreadPaintBegin ==
    /\ ~panicked
    /\ UNCHANGED ovars
    /\ pc = "modal" /\ redraw_pending /\ msgq = <<>>
    /\ redraw_pending' = FALSE
    /\ pc' = IF in_modal_loop THEN "paint_peek" ELSE "modal"
    /\ UNCHANGED <<runner_some, runner_state, control_flow, in_modal_loop, buffer, trigger,
                   chan, panicked, delivered, next_id, nested, writes>>
    /\ UNCHANGED <<msg, msg_unprocessed, msgq, now, runs, pvars, modals>>

\* a WM_PAINT of another window is removed and dispatched
ThreadPaintFlush ==
    /\ ~panicked
    /\ UNCHANGED ovars
    /\ pc = "paint_peek" /\ msgq # <<>> /\ Head(msgq).k = "Paint"
    /\ \E ch1, ch2 \in Choices :
          Commit(public_window_callback(World, Head(msgq), ch1, ch2, now))
    /\ msgq' = Tail(msgq)
    /\ UNCHANGED <<pc, msg, msg_unprocessed, now, runs, pvars, modals>>

\* any other message: queue_call_again(); return 0
ThreadPaintRequeue ==
    /\ ~panicked
    /\ UNCHANGED ovars
    /\ pc = "paint_peek" /\ msgq # <<>> /\ Head(msgq).k # "Paint"
    /\ redraw_pending' = TRUE
    /\ pc' = "modal"
    /\ UNCHANGED <<runner_some, runner_state, control_flow, in_modal_loop, buffer, trigger,
                   chan, panicked, delivered, next_id, nested, writes>>
    /\ UNCHANGED <<msg, msg_unprocessed, msgq, now, runs, pvars, modals>>

\* the queue is empty: events_cleared(), then by control flow
ThreadPaintCleared ==
    /\ ~panicked
    /\ UNCHANGED ovars
    /\ pc = "paint_peek" /\ msgq = <<>>
    /\ \E ch1, ch2, ch3 \in Choices :
          LET W1 == events_cleared(World, ch1, ch2, now)
              cf == W1.control_flow
          IN CASE cf \in {Exit, Wait} ->
                    Commit(new_events(W1, ch3, now)) /\ pc' = "modal"
               [] cf = Poll ->
                    Commit([new_events(W1, ch3, now) EXCEPT !.redraw_pending = TRUE])
                    /\ pc' = "modal"
               [] cf.t = "WaitUntil" ->
                    Commit(W1) /\ pc' = "paint_wait"
    /\ UNCHANGED <<msg, msg_unprocessed, msgq, now, runs, pvars, modals>>

\* ... wait_until_time_or_msg(resume_time); new_events(); queue_call_again()
ThreadPaintAfterWait ==
    /\ ~panicked
    /\ UNCHANGED ovars
    /\ pc = "paint_wait"
    /\ msgq # <<>> \/ now >= control_flow.d
    /\ \E ch \in Choices :
          Commit([new_events(World, ch, now) EXCEPT !.redraw_pending = TRUE])
    /\ pc' = "modal"
    /\ UNCHANGED <<msg, msg_unprocessed, msgq, now, runs, pvars, modals>>

\* ---- the environment -----------------------------------------------------
\* Posting commutes with the steps of the loop thread that do not look at the
\* queue, so messages are posted only where the loop thread looks at it next.
PostMessage(k) ==
    /\ ~panicked
    /\ UNCHANGED ovars
    /\ next_id <= MaxMsgs
    /\ pc \in {"peek", "get_message", "wait_until", "modal", "paint_peek", "paint_wait"}
    /\ msgq' = Append(msgq, Message(k, next_id))
    /\ next_id' = next_id + 1
    /\ UNCHANGED <<runner_some, runner_state, control_flow, in_modal_loop, buffer, trigger,
                   redraw_pending, chan, panicked, delivered, nested, writes>>
    /\ UNCHANGED <<pc, msg, msg_unprocessed, now, runs, pvars, modals>>

\* the user starts to move or resize a window
PostSizeMove ==
    /\ ~panicked
    /\ UNCHANGED ovars
    /\ modals < MaxModal /\ Len(delivered) < MaxTrace
    /\ pc \in {"peek", "get_message", "wait_until"}
    /\ msgq' = Append(msgq, Message("SizeMove", 0))
    /\ modals' = modals + 1
    /\ UNCHANGED wvars
    /\ UNCHANGED <<pc, msg, msg_unprocessed, now, runs, pvars>>

\* a window procedure that runs while run_return is not running (the user
\* drops or changes a window between two runs) calls send_event
SendEventOutside ==
    /\ ~panicked
    /\ UNCHANGED ovars
    /\ pc = "norun" /\ next_id <= MaxMsgs /\ ~dropped
    /\ \E ch \in Choices :
          Commit(send_event([World EXCEPT !.next_id = @ + 1],
                            WindowEvent(next_id, 0), ch, ch, now))
    /\ UNCHANGED lvars

\* EventLoopProxy::send_event on thread p: PostMessageW fails once the
\* target window is destroyed (Err(EventLoopClosed)), else the wake message
\* is queued.  The proxy threads run the same code, so the idle one with the
\* lowest number makes the next call.
ProxyPost(p) ==
    /\ ~panicked
    /\ UNCHANGED ovars
    /\ proxy_pc[p] = 0 /\ next_id <= MaxMsgs
    /\ \A q \in 1 .. (p - 1) : proxy_pc[q] # 0
    /\ IF dropped
       THEN /\ returned' = returned \cup {[id |-> next_id, ok |-> FALSE, sent |-> FALSE]}
            /\ UNCHANGED <<msgq, proxy_pc>>
       ELSE /\ pc \in {"norun", "peek", "get_message", "wait_until", "modal",
                       "paint_peek", "paint_wait"}
            /\ msgq' = Append(msgq, Message("User", next_id))
            /\ proxy_pc' = [proxy_pc EXCEPT ![p] = next_id]
            /\ UNCHANGED returned
    /\ next_id' = next_id + 1
    /\ UNCHANGED <<runner_some, runner_state, control_flow, in_modal_loop, buffer, trigger,
                   redraw_pending, chan, panicked, delivered, nested, writes>>
    /\ UNCHANGED <<pc, msg, msg_unprocessed, now, runs, dropped, enq, modals>>

\* ... then event_send.send(event).ok(); Ok(()): the result of send is
\* discarded (it is an error once the receiver is gone)
ProxySend(p) ==
    /\ ~panicked
    /\ UNCHANGED ovars
    /\ proxy_pc[p] # 0
    /\ chan' = IF dropped THEN chan ELSE Append(chan, proxy_pc[p])
    /\ enq' = IF dropped THEN enq ELSE Append(enq, proxy_pc[p])
    /\ returned' = returned \cup {[id |-> proxy_pc[p], ok |-> TRUE, sent |-> ~dropped]}
    /\ proxy_pc' = [proxy_pc EXCEPT ![p] = 0]
    /\ UNCHANGED <<runner_some, runner_state, control_flow, in_modal_loop, buffer, trigger,
                   redraw_pending, panicked, delivered, next_id, nested, writes>>
    /\ UNCHANGED <<pc, msg, msg_unprocessed, msgq, now, runs, dropped, modals>>

\* Drop for EventLoop, between or after the runs: DestroyWindow removes the
\* messages of the thread message target and its WM_DESTROY handler drops
\* the receiver with the payloads in it; WM_QUIT is posted to the thread.
DropEventLoop ==
    /\ ~panicked
    /\ UNCHANGED ovars
    /\ pc = "norun" /\ ~dropped
    /\ dropped' = TRUE
    /\ msgq' = Append(SelectSeq(msgq, LAMBDA m : m.k # "User"), Message("Quit", 0))
    /\ chan' = <<>>
    /\ UNCHANGED <<runner_some, runner_state, control_flow, in_modal_loop, buffer, trigger,
                   redraw_pending, panicked, delivered, next_id, nested, writes>>
    /\ UNCHANGED <<pc, msg, msg_unprocessed, now, runs, proxy_pc, enq, returned, modals>>

Tick ==
    /\ ~panicked
    /\ UNCHANGED ovars
    /\ now < MaxTime
    /\ now' = now + 1
    /\ UNCHANGED wvars
    /\ UNCHANGED <<pc, msg, msg_unprocessed, msgq, runs, pvars, modals>>

\* ---- X11: EventsLoopProxy::wakeup and the dispatcher ----------------------
\* The proxy threads are those of Proxies.  A ClientMessage is "Wakeup" (sent
\* by wakeup() to the dummy window) or "Other" (any other ClientMessage that
\* is neither WM_DELETE_WINDOW nor an XDnD message); process_event treats
\* both alike.
InitWakeup ==
    /\ pending_wakeup = FALSE
    /\ loop_alive = TRUE
    /\ xqueue = <<>>
    /\ xpc = "next"
    /\ awakened = 0
    /\ wakeup_pc = [p \in Proxies |-> "idle"]
    /\ wakeup_calls = 0
    /\ wakeup_closed = 0
    /\ owed = {}
    /\ other_msgs = 0

\* wakeup(): both Weak references upgrade and the flag is stored, or the
\* call returns Err(EventsLoopClosed)
wakeup_Store(p) ==
    /\ wakeup_pc[p] = "idle"
    /\ wakeup_calls + wakeup_closed < MaxWakeups
    /\ \A q \in 1 .. (p - 1) : wakeup_pc[q] # "idle"
    /\ IF loop_alive
       THEN /\ pending_wakeup' = TRUE
            /\ wakeup_pc' = [wakeup_pc EXCEPT ![p] = "send"]
            /\ wakeup_calls' = wakeup_calls + 1
            /\ owed' = owed \cup {p}
            /\ UNCHANGED wakeup_closed
       ELSE /\ wakeup_closed' = wakeup_closed + 1
            /\ UNCHANGED <<pending_wakeup, wakeup_pc, wakeup_calls, owed>>
    /\ UNCHANGED <<loop_alive, xqueue, xpc, awakened, other_msgs>>
    /\ UNCHANGED <<vars, wnvars, dndvars, scvars, cuvars, cfvars, kyvars, msvars, dpvars,
                   covars, tmvars, rbvars, wdvars, mevars>>

\* (wakeup() returning without sending the ClientMessage)
wakeup_Send_NoMessage(p) ==
    /\ wakeup_pc[p] = "send"
    /\ wakeup_pc' = [wakeup_pc EXCEPT ![p] = "idle"]
    /\ UNCHANGED <<pending_wakeup, loop_alive, xqueue, xpc, awakened, wakeup_calls,
                   wakeup_closed, owed, other_msgs>>
    /\ UNCHANGED <<vars, wnvars, dndvars, scvars, cuvars, cfvars, kyvars, msvars, dpvars,
                   covars, tmvars, rbvars, wdvars, mevars>>

\* ... send_client_msg(..).flush(); Ok(())
wakeup_Send(p) ==
    /\ wakeup_pc[p] = "send"
    /\ xqueue' = Append(xqueue, "Wakeup")
    /\ wakeup_pc' = [wakeup_pc EXCEPT ![p] = "idle"]
    /\ UNCHANGED <<pending_wakeup, loop_alive, xpc, awakened, wakeup_calls,
                   wakeup_closed, owed, other_msgs>>
    /\ UNCHANGED <<vars, wnvars, dndvars, scvars, cuvars, cfvars, kyvars, msvars, dpvars,
                   covars, tmvars, rbvars, wdvars, mevars>>

\* another client sends a ClientMessage to one of the windows
OtherClientMessage ==
    /\ loop_alive /\ other_msgs < MaxOtherMsgs
    /\ xqueue' = Append(xqueue, "Other")
    /\ other_msgs' = other_msgs + 1
    /\ UNCHANGED <<pending_wakeup, loop_alive, xpc, awakened, wakeup_pc, wakeup_calls,
                   wakeup_closed, owed>>
    /\ UNCHANGED <<vars, wnvars, dndvars, scvars, cuvars, cfvars, kyvars, msvars, dpvars,
                   covars, tmvars, rbvars, wdvars, mevars>>

\* (the dispatcher going on to store and call back whatever it loaded)
x11_ClientMessage_Load_IgnoresFlag ==
    /\ loop_alive /\ xpc = "next" /\ xqueue # <<>>
    /\ xqueue' = Tail(xqueue)
    /\ xpc' = "store"
    /\ UNCHANGED <<pending_wakeup, loop_alive, awakened, wakeup_pc, wakeup_calls,
                   wakeup_closed, owed, other_msgs>>
    /\ UNCHANGED <<vars, wnvars, dndvars, scvars, cuvars, cfvars, kyvars, msvars, dpvars,
                   covars, tmvars, rbvars, wdvars, mevars>>

\* XNextEvent, process_event, ClientMessage: pending_wakeup.load(Relaxed)
x11_ClientMessage_Load ==
    /\ loop_alive /\ xpc = "next" /\ xqueue # <<>>
    /\ xqueue' = Tail(xqueue)
    /\ xpc' = IF pending_wakeup THEN "store" ELSE "next"
    /\ UNCHANGED <<pending_wakeup, loop_alive, awakened, wakeup_pc, wakeup_calls,
                   wakeup_closed, owed, other_msgs>>
    /\ UNCHANGED <<vars, wnvars, dndvars, scvars, cuvars, cfvars, kyvars, msvars, dpvars,
                   covars, tmvars, rbvars, wdvars, mevars>>

\* ... pending_wakeup.store(false, Relaxed); callback(Event::Awakened)
x11_ClientMessage_Store ==
    /\ xpc = "store"
    /\ pending_wakeup' = FALSE
    /\ awakened' = awakened + 1
    /\ owed' = {}
    /\ xpc' = "next"
    /\ UNCHANGED <<loop_alive, xqueue, wakeup_pc, wakeup_calls, wakeup_closed, other_msgs>>
    /\ UNCHANGED <<vars, wnvars, dndvars, scvars, cuvars, cfvars, kyvars, msvars, dpvars,
                   covars, tmvars, rbvars, wdvars, mevars>>

\* the EventsLoop is dropped (between two calls of the dispatcher): the
\* Arc of pending_wakeup goes away, so the proxies' Weak no longer upgrades
x11_DropEventsLoop ==
    /\ loop_alive /\ xpc = "next"
    /\ loop_alive' = FALSE
    /\ UNCHANGED <<pending_wakeup, xqueue, xpc, awakened, wakeup_pc, wakeup_calls,
                   wakeup_closed, owed, other_msgs>>
    /\ UNCHANGED <<vars, wnvars, dndvars, scvars, cuvars, cfvars, kyvars, msvars, dpvars,
                   covars, tmvars, rbvars, wdvars, mevars>>

NextWakeupLive ==
    \/ \E p \in Proxies : wakeup_Store(p)
    \/ \E p \in Proxies : wakeup_Send(p)
    \/ OtherClientMessage
    \/ x11_ClientMessage_Load
    \/ x11_ClientMessage_Store

NextWakeup ==
    \/ \E p \in Proxies : wakeup_Store(p)
    \/ \E p \in Proxies : wakeup_Send(p)
    \/ OtherClientMessage
    \/ x11_ClientMessage_Load
    \/ x11_ClientMessage_Store
    \/ x11_DropEventsLoop

\* ---- X11: windows and the events that name them --------------------------
WindowIds == 1 .. NumWindows

\* the native events of process_event that name a window
XEventTypes ==
    {"Expose", "Key", "Button", "ButtonEmulated", "Motion", "Enter", "Leave", "FocusIn",
     "FocusOut", "Touch", "ConfigureNotify", "XdndLeave"}

XEvent(type, w) == [type |-> type, window |-> w]
WinEvent(kind, w) == [kind |-> kind, window |-> w]

InitWindows ==
    /\ xwindows = {}
    /\ xcreated = {}
    /\ xhandles = {}
    /\ xserver = {}
    /\ xevq = <<>>
    /\ xsent = 0
    /\ xdelivered = <<>>

\* Window::new: the X window is created and entered in the registry
Window_new(w) ==
    /\ w \notin xcreated
    /\ \A v \in 1 .. (w - 1) : v \in xcreated
    /\ xcreated' = xcreated \cup {w}
    /\ xhandles' = xhandles \cup {w}
    /\ xserver' = xserver \cup {w}
    /\ xwindows' = xwindows \cup {w}
    /\ UNCHANGED <<xevq, xsent, xdelivered>>
    /\ UNCHANGED <<vars, wkvars, dndvars, scvars, cuvars, cfvars, kyvars, msvars, dpvars,
                   covars, tmvars, rbvars, wdvars, mevars>>

\* Drop for Window: XDestroyWindow only if the registry still had the
\* window; the server then reports DestroyNotify (a window that is already
\* gone gives a BadWindow error and no event)
Window_drop(w) ==
    /\ w \in xhandles
    /\ xhandles' = xhandles \ {w}
    /\ xwindows' = xwindows \ {w}
    /\ IF w \in xwindows /\ w \in xserver
       THEN /\ xserver' = xserver \ {w}
            /\ xevq' = Append(xevq, XEvent("DestroyNotify", w))
       ELSE UNCHANGED <<xserver, xevq>>
    /\ UNCHANGED <<xcreated, xsent, xdelivered>>
    /\ UNCHANGED <<vars, wkvars, dndvars, scvars, cuvars, cfvars, kyvars, msvars, dpvars,
                   covars, tmvars, rbvars, wdvars, mevars>>

\* the window is destroyed by the platform (window manager, another client)
PlatformDestroy(w) ==
    /\ w \in xserver
    /\ xserver' = xserver \ {w}
    /\ xevq' = Append(xevq, XEvent("DestroyNotify", w))
    /\ UNCHANGED <<xwindows, xcreated, xhandles, xsent, xdelivered>>
    /\ UNCHANGED <<vars, wkvars, dndvars, scvars, cuvars, cfvars, kyvars, msvars, dpvars,
                   covars, tmvars, rbvars, wdvars, mevars>>

\* a second DestroyNotify for a window that has been destroyed
DuplicateDestroyNotify(w) ==
    /\ w \in xcreated /\ w \notin xserver /\ xsent < MaxXEvents
    /\ xevq' = Append(xevq, XEvent("DestroyNotify", w))
    /\ xsent' = xsent + 1
    /\ UNCHANGED <<xwindows, xcreated, xhandles, xserver, xdelivered>>
    /\ UNCHANGED <<vars, wkvars, dndvars, scvars, cuvars, cfvars, kyvars, msvars, dpvars,
                   covars, tmvars, rbvars, wdvars, mevars>>

\* a native event that names window w (sent by the server, or by another
\* client with XSendEvent) is queued
NativeEvent(type, w) ==
    /\ w \in xcreated /\ xsent < MaxXEvents
    /\ xevq' = Append(xevq, XEvent(type, w))
    /\ xsent' = xsent + 1
    /\ UNCHANGED <<xwindows, xcreated, xhandles, xserver, xdelivered>>
    /\ UNCHANGED <<vars, wkvars, dndvars, scvars, cuvars, cfvars, kyvars, msvars, dpvars,
                   covars, tmvars, rbvars, wdvars, mevars>>

\* the events process_event hands to the callback for one native event;
\* registered: the window is in EventsLoop.windows
x11_events(type, w, registered) ==
    CASE type = "DestroyNotify" -> <<WinEvent("Destroyed", w)>>
      [] type = "Expose" -> <<WinEvent("Refresh", w)>>
      [] type = "Key" -> <<WinEvent("KeyboardInput", w)>>
      [] type = "Button" -> <<WinEvent("MouseInput", w)>>
      [] type = "ButtonEmulated" -> IF registered THEN <<WinEvent("MouseInput", w)>> ELSE <<>>
      [] type = "Motion" -> IF registered THEN <<WinEvent("CursorMoved", w)>> ELSE <<>>
      [] type = "Enter" -> <<WinEvent("CursorEntered", w), WinEvent("CursorMoved", w)>>
      [] type = "Leave" -> IF registered THEN <<WinEvent("CursorLeft", w)>> ELSE <<>>
      [] type = "FocusIn" ->
           IF registered THEN <<WinEvent("Focused", w), WinEvent("CursorMoved", w)>> ELSE <<>>
      [] type = "FocusOut" -> IF registered THEN <<WinEvent("Focused", w)>> ELSE <<>>
      [] type = "Touch" -> <<WinEvent("Touch", w)>>
      [] type = "ConfigureNotify" -> IF registered THEN <<WinEvent("Resized", w)>> ELSE <<>>
      [] type = "XdndLeave" -> <<WinEvent("HoveredFileCancelled", w)>>

\* XNextEvent and process_event; DestroyNotify removes the registry entry
x11_process_event ==
    /\ xevq # <<>>
    /\ LET e == Head(xevq)
       IN /\ xdelivered' = xdelivered \o x11_events(e.type, e.window, e.window \in xwindows)
          /\ xwindows' = IF e.type = "DestroyNotify" THEN xwindows \ {e.window} ELSE xwindows
    /\ xevq' = Tail(xevq)
    /\ UNCHANGED <<xcreated, xhandles, xserver, xsent>>
    /\ UNCHANGED <<vars, wkvars, dndvars, scvars, cuvars, cfvars, kyvars, msvars, dpvars,
                   covars, tmvars, rbvars, wdvars, mevars>>

NextWindows ==
    \/ \E w \in WindowIds : Window_new(w)
    \/ \E w \in WindowIds : Window_drop(w)
    \/ \E w \in WindowIds : PlatformDestroy(w)
    \/ \E w \in WindowIds : DuplicateDestroyNotify(w)
    \/ \E type \in XEventTypes, w \in WindowIds : NativeEvent(type, w)
    \/ x11_process_event

\* ---- X11: XDnD -----------------------------------------------------------
PathNames == <<"/a", "/b", "/c", "/d">>
PathLists == {SubSeq(PathNames, 1, n) : n \in 0 .. MaxPaths}

NoResult == [t |-> "None", paths |-> <<>>]
ParseError == [t |-> "Err", paths |-> <<>>]
Parsed(paths) == [t |-> "Ok", paths |-> paths]

\* an XDnD ClientMessage or a SelectionNotify event
DndMsg(k, types, data) == [k |-> k, types |-> types, data |-> data]

\* entries of dnd_log: an event taken from the queue, an event handed to the
\* callback, or a message sent to the drag source
In(m) == [d |-> "in", k |-> m.k, v |-> m.types, data |-> m.data]
Out(k, path) == [d |-> "out", k |-> k, v |-> path, data |-> NoResult]
Sent(k, state) == [d |-> "sent", k |-> k, v |-> state, data |-> NoResult]

InitDnd ==
    /\ dnd_type_list = "None"
    /\ dnd_source_window = FALSE
    /\ dnd_result = NoResult
    /\ dnd_pending = 0
    /\ dnd_q = <<>>
    /\ dnd_log = <<>>
    /\ dnd_sent = 0
    /\ drag_paths = <<>>

\* a drag enters the window: XdndEnter, with the uri-list type in the
\* message ("uri"), without it ("other"), or with more than three types
\* and a type list that cannot be read ("unread")
DragEnter(types, paths) ==
    /\ dnd_sent < MaxDndMsgs
    /\ dnd_q' = Append(dnd_q, DndMsg("Enter", types, NoResult))
    /\ drag_paths' = paths
    /\ dnd_sent' = dnd_sent + 1
    /\ UNCHANGED <<dnd_type_list, dnd_source_window, dnd_result, dnd_pending, dnd_log>>
    /\ UNCHANGED <<vars, wkvars, wnvars, scvars, cuvars, cfvars, kyvars, msvars, dpvars,
                   covars, tmvars, rbvars, wdvars, mevars>>

\* the drag source sends XdndPosition, XdndDrop or XdndLeave
DragMessage(k) ==
    /\ dnd_sent < MaxDndMsgs
    /\ dnd_q' = Append(dnd_q, DndMsg(k, "", NoResult))
    /\ dnd_sent' = dnd_sent + 1
    /\ UNCHANGED <<dnd_type_list, dnd_source_window, dnd_result, dnd_pending, dnd_log,
                   drag_paths>>
    /\ UNCHANGED <<vars, wkvars, wnvars, scvars, cuvars, cfvars, kyvars, msvars, dpvars,
                   covars, tmvars, rbvars, wdvars, mevars>>

\* the answer to a convert_selection: SelectionNotify; read_data fails
\* ("None"), or parse_data fails ("Err"), or the paths are read
SelectionArrives(outcome) ==
    /\ dnd_pending > 0
    /\ dnd_pending' = dnd_pending - 1
    /\ LET data == CASE outcome = "None" -> NoResult
                      [] outcome = "Err" -> ParseError
                      [] outcome = "Ok" -> Parsed(drag_paths)
       IN dnd_q' = Append(dnd_q, DndMsg("SelectionNotify", "", data))
    /\ UNCHANGED <<dnd_type_list, dnd_source_window, dnd_result, dnd_log, dnd_sent,
                   drag_paths>>
    /\ UNCHANGED <<vars, wkvars, wnvars, scvars, cuvars, cfvars, kyvars, msvars, dpvars,
                   covars, tmvars, rbvars, wdvars, mevars>>

\* one callback(..) per path
FileEvents(k, paths) == [i \in 1 .. Len(paths) |-> Out(k, paths[i])]

\* (XdndDrop reporting the paths last first)
dnd_drop_events_Reversed(result) ==
    IF result.t = "Ok"
    THEN [i \in 1 .. Len(result.paths) |->
             Out("DroppedFile", result.paths[Len(result.paths) + 1 - i])]
    ELSE <<>>

\* XdndDrop: if let Some(Ok(ref path_list)) = self.dnd.result
dnd_drop_events(result) ==
    IF result.t = "Ok" THEN FileEvents("DroppedFile", result.paths) ELSE <<>>

\* Dnd::reset: every field goes back to None
Dnd_reset ==
    /\ dnd_type_list' = "None"
    /\ dnd_source_window' = FALSE
    /\ dnd_result' = NoResult

\* process_event for the XDnD ClientMessages and SelectionNotify
x11_dnd_process_event ==
    /\ dnd_q # <<>>
    /\ dnd_q' = Tail(dnd_q)
    /\ LET m == Head(dnd_q)
           log == Append(dnd_log, In(m))
           accepted == dnd_type_list = "uri"
       IN CASE m.k = "Enter" ->
                 /\ dnd_type_list' = IF m.types = "unread" THEN dnd_type_list ELSE m.types
                 /\ dnd_log' = log
                 /\ UNCHANGED <<dnd_source_window, dnd_result, dnd_pending>>
            [] m.k = "Position" /\ accepted ->
                 /\ dnd_source_window' = TRUE
                 /\ dnd_pending' = IF dnd_result.t = "None" THEN dnd_pending + 1
                                    ELSE dnd_pending
                 /\ dnd_log' = Append(log, Sent("Status", "Accepted"))
                 /\ UNCHANGED <<dnd_type_list, dnd_result>>
            [] m.k = "Position" /\ ~accepted ->
                 /\ dnd_log' = log \o <<Sent("Status", "Rejected"), Sent("Finished", "Rejected")>>
                 /\ Dnd_reset
                 /\ UNCHANGED dnd_pending
            [] m.k = "Drop" ->
                 /\ dnd_log' = IF dnd_source_window
                               THEN (log \o dnd_drop_events(dnd_result))
                                        \o <<Sent("Finished", "Accepted")>>
                               ELSE log
                 /\ Dnd_reset
                 /\ UNCHANGED dnd_pending
            [] m.k = "Leave" ->
                 /\ dnd_log' = Append(log, Out("HoveredFileCancelled", ""))
                 /\ Dnd_reset
                 /\ UNCHANGED dnd_pending
            [] m.k = "SelectionNotify" ->
                 /\ dnd_log' = log \o FileEvents("HoveredFile", m.data.paths)
                 /\ dnd_result' = m.data
                 /\ UNCHANGED <<dnd_type_list, dnd_source_window, dnd_pending>>
    /\ UNCHANGED <<dnd_sent, drag_paths>>
    /\ UNCHANGED <<vars, wkvars, wnvars, scvars, cuvars, cfvars, kyvars, msvars, dpvars,
                   covars, tmvars, rbvars, wdvars, mevars>>

NextDnd ==
    \/ \E types \in {"uri", "other", "unread"}, paths \in PathLists : DragEnter(types, paths)
    \/ \E k \in {"Position", "Drop", "Leave"} : DragMessage(k)
    \/ \E outcome \in {"None", "Err", "Ok"} : SelectionArrives(outcome)
    \/ x11_dnd_process_event

\* ---- X11: scroll axes ----------------------------------------------------
\* Valuator values and increments are f64; the model takes small integers
\* for them.  A LineDelta component is an f32: a value with a significand of
\* MantBits bits, kept as a multiple of 1/Unit.
Unit == 2 ^ (MantBits + MaxInc)
Abs(x) == IF x < 0 THEN 0 - x ELSE x

\* the smallest power of two s with n / (d * s) < 2 ^ MantBits
RECURSIVE Ulp(_, _, _)
Ulp(n, d, s) == IF n < (2 ^ MantBits) * d * s THEN s ELSE Ulp(n, d, 2 * s)

\* ((x - position) / increment) as f32: num / den rounded to the nearest
\* value with MantBits significant bits, ties to even; in units of 1/Unit
as_f32(num, den) ==
    LET n == Abs(num) * Unit
        s == Ulp(n, den, 1)
        q == n \div (den * s)
        r == n % (den * s)
        m == IF 2 * r > den * s \/ (2 * r = den * s /\ q % 2 = 1) THEN q + 1 ELSE q
    IN IF num < 0 THEN 0 - (m * s) ELSE m * s

NoAxis == [increment |-> 0, orientation |-> "None", position |-> 0]

InitScroll ==
    /\ axis = NoAxis
    /\ valuator = 0
    /\ reset_position = 0
    /\ wheel_sum = 0
    /\ travel = 0
    /\ wheel_log = <<>>
    /\ motions = 0

\* Device::new: the scroll axis is found with position 0.0, then
\* reset_scroll_position caches the current value of the valuator
Device_new(increment, orientation, value) ==
    /\ axis = NoAxis
    /\ axis' = [increment |-> increment, orientation |-> orientation, position |-> value]
    /\ valuator' = value
    /\ reset_position' = value
    /\ UNCHANGED <<wheel_sum, travel, wheel_log, motions>>
    /\ UNCHANGED <<vars, wkvars, wnvars, dndvars, cuvars, cfvars, kyvars, msvars, dpvars,
                   covars, tmvars, rbvars, wdvars, mevars>>

\* (the vertical component emitted without the change of sign)
LineDelta_NotNegated(orientation, delta) == delta

\* the component of LineDelta that is not 0.0
LineDelta(orientation, delta) == IF orientation = "Vertical" THEN 0 - delta ELSE delta

\* the MouseWheel event pushed for a valuator at x: LineDelta(h, v) in units
\* of 1/Unit (0.0 and -0.0 are the same f32 value under ==), with the value
\* of the valuator and the position of the axis it was measured from
MouseWheel(info, x) ==
    LET delta == as_f32(x - info.position, info.increment)
        c == LineDelta(info.orientation, delta)
    IN [x |-> x, from |-> info.position,
        h |-> IF info.orientation = "Horizontal" THEN c ELSE 0,
        v |-> IF info.orientation = "Vertical" THEN c ELSE 0]

\* (info.position left as it was)
ScrollAxis_position_Kept(info, x) == info

\* info.position = x
ScrollAxis_position(info, x) == [info EXCEPT !.position = x]

\* XI_Motion with the valuator of the scroll axis set in the mask
XI_Motion(x) ==
    /\ axis # NoAxis /\ motions < MaxMotions
    /\ valuator' = x
    /\ LET ev == MouseWheel(axis, x)
       IN /\ wheel_sum' = wheel_sum + ev.h + ev.v
          /\ wheel_log' = Append(wheel_log, ev)
    /\ travel' = travel + Abs(x - axis.position)
    /\ axis' = ScrollAxis_position(axis, x)
    /\ motions' = motions + 1
    /\ UNCHANGED reset_position
    /\ UNCHANGED <<vars, wkvars, wnvars, dndvars, cuvars, cfvars, kyvars, msvars, dpvars,
                   covars, tmvars, rbvars, wdvars, mevars>>

\* XI_Enter: the pointer comes back from elsewhere, where the valuator may
\* have moved; reset_scroll_position caches its current value
XI_Enter(value) ==
    /\ axis # NoAxis /\ motions < MaxMotions
    /\ valuator' = value
    /\ axis' = [axis EXCEPT !.position = value]
    /\ reset_position' = value
    /\ wheel_sum' = 0
    /\ travel' = 0
    /\ wheel_log' = <<>>
    /\ motions' = motions + 1
    /\ UNCHANGED <<vars, wkvars, wnvars, dndvars, cuvars, cfvars, kyvars, msvars, dpvars,
                   covars, tmvars, rbvars, wdvars, mevars>>

NextScroll ==
    \/ \E increment \in 1 .. MaxInc, orientation \in {"Vertical", "Horizontal"},
          value \in 0 .. MaxPos : Device_new(increment, orientation, value)
    \/ \E x \in 0 .. MaxPos : XI_Motion(x)
    \/ \E value \in 0 .. MaxPos : XI_Enter(value)


\* ---- X11: CursorMoved and the cached cursor position ----------------------
\* (event_x, event_y) of a native event
CursorPositions == (0 .. MaxXY) \X (0 .. MaxXY)
\* Option<(f64, f64)>: None
NoPos == <<>>
\* the valuators of the pointer device; number 0 is its scroll axis
Valuators == 0 .. NumValuators - 1
ScrollAxes == {0}

CursorEvent(kind, pos, i) == [kind |-> kind, pos |-> pos, axis |-> i]

InitCursor ==
    /\ cur_window = "none"
    /\ cursor_pos = NoPos
    /\ cur_last = [type |-> "None", pos |-> NoPos, mask |-> {}, before |-> NoPos,
                   after |-> NoPos,
                   registered |-> FALSE, emitted |-> <<>>]
    /\ cur_moved = <<>>
    /\ cur_n = 0

\* Window::new inserts WindowData with cursor_pos: None
cursor_Window_new ==
    /\ cur_window = "none"
    /\ cur_window' = "registered"
    /\ cursor_pos' = NoPos
    /\ UNCHANGED <<cur_last, cur_moved, cur_n>>
    /\ UNCHANGED <<vars, wkvars, wnvars, dndvars, scvars, cfvars, kyvars, msvars, dpvars,
                   covars, tmvars, rbvars, wdvars, mevars>>

\* DestroyNotify removes the WindowData of the window
cursor_DestroyNotify ==
    /\ cur_window = "registered"
    /\ cur_window' = "removed"
    /\ cursor_pos' = NoPos
    /\ UNCHANGED <<cur_last, cur_moved, cur_n>>
    /\ UNCHANGED <<vars, wkvars, wnvars, dndvars, scvars, cfvars, kyvars, msvars, dpvars,
                   covars, tmvars, rbvars, wdvars, mevars>>

\* the events pushed for the valuators set in the mask, from number i upwards
RECURSIVE ValuatorEvents(_, _)
ValuatorEvents(mask, i) ==
    IF i >= NumValuators THEN <<>>
    ELSE (IF i \in mask
          THEN <<CursorEvent(IF i \in ScrollAxes THEN "MouseWheel" ELSE "AxisMotion",
                             NoPos, i)>>
          ELSE <<>>) \o ValuatorEvents(mask, i + 1)

\* (a position equal to the cached one suppresses the whole event)
XI_Motion_events_DropsAxes(pos, mask, cached) ==
    IF pos # cached THEN <<CursorEvent("CursorMoved", pos, 0 - 1)>> \o ValuatorEvents(mask, 0)
    ELSE <<>>

\* what XI_Motion hands to the callback for a registered window
XI_Motion_events(pos, mask, cached) ==
    (IF pos # cached THEN <<CursorEvent("CursorMoved", pos, 0 - 1)>> ELSE <<>>)
        \o ValuatorEvents(mask, 0)

\* the positions of the CursorMoved events of a sequence of events
RECURSIVE MovedPositions(_)
MovedPositions(evs) ==
    IF evs = <<>> THEN <<>>
    ELSE (IF Head(evs).kind = "CursorMoved" THEN <<Head(evs).pos>> ELSE <<>>)
             \o MovedPositions(Tail(evs))

\* the bookkeeping of one processed native event
CursorProcessed(type, pos, mask, evs, after) ==
    /\ cur_last' = [type |-> type, pos |-> pos, mask |-> mask, before |-> cursor_pos,
                    after |-> after,
                    registered |-> cur_window = "registered", emitted |-> evs]
    /\ cur_moved' = cur_moved \o MovedPositions(evs)
    /\ cur_n' = cur_n + 1

\* XI_Motion: returns at once for a window that is not registered
cursor_XI_Motion(pos, mask) ==
    /\ cur_window # "none" /\ cur_n < MaxCursorEvents
    /\ IF cur_window = "registered"
       THEN /\ cursor_pos' = pos
            /\ CursorProcessed("Motion", pos, mask,
                               XI_Motion_events(pos, mask, cursor_pos), pos)
       ELSE /\ cursor_pos' = cursor_pos
            /\ CursorProcessed("Motion", pos, mask, <<>>, cursor_pos)
    /\ UNCHANGED cur_window
    /\ UNCHANGED <<vars, wkvars, wnvars, dndvars, scvars, cfvars, kyvars, msvars, dpvars,
                   covars, tmvars, rbvars, wdvars, mevars>>

\* XI_Enter: CursorEntered, then CursorMoved, whatever the registry holds
cursor_XI_Enter(pos) ==
    /\ cur_window # "none" /\ cur_n < MaxCursorEvents
    /\ CursorProcessed("Enter", pos, {},
                       <<CursorEvent("CursorEntered", NoPos, 0 - 1),
                         CursorEvent("CursorMoved", pos, 0 - 1)>>, cursor_pos)
    /\ UNCHANGED <<cur_window, cursor_pos>>
    /\ UNCHANGED <<vars, wkvars, wnvars, dndvars, scvars, cfvars, kyvars, msvars, dpvars,
                   covars, tmvars, rbvars, wdvars, mevars>>

\* XI_FocusIn: Focused(true), then CursorMoved, for a registered window
cursor_XI_FocusIn(pos) ==
    /\ cur_window # "none" /\ cur_n < MaxCursorEvents
    /\ CursorProcessed("FocusIn", pos, {},
                       IF cur_window = "registered"
                       THEN <<CursorEvent("Focused", NoPos, 0 - 1),
                              CursorEvent("CursorMoved", pos, 0 - 1)>>
                       ELSE <<>>, cursor_pos)
    /\ UNCHANGED <<cur_window, cursor_pos>>
    /\ UNCHANGED <<vars, wkvars, wnvars, dndvars, scvars, cfvars, kyvars, msvars, dpvars,
                   covars, tmvars, rbvars, wdvars, mevars>>

NextCursor ==
    \/ cursor_Window_new
    \/ cursor_DestroyNotify
    \/ \E pos \in CursorPositions, mask \in SUBSET Valuators : cursor_XI_Motion(pos, mask)
    \/ \E pos \in CursorPositions : cursor_XI_Enter(pos)
    \/ \E pos \in CursorPositions : cursor_XI_FocusIn(pos)


\* ---- X11: ConfigureNotify --------------------------------------------------
\* (xev.width, xev.height) and (xev.x, xev.y) of a ConfigureNotify
ConfigSizes == {<<w, 1>> : w \in 1 .. MaxWidth}
ConfigPositions == {<<x, 0>> : x \in 0 .. MaxXY}

\* WindowConfig::default(): every field is None
DefaultConfig == [size |-> NoPos, position |-> NoPos, inner_position |-> NoPos]

ConfigEvent(kind, value, extents) == [kind |-> kind, value |-> value, extents |-> extents]

InitConfigure ==
    /\ cfg_window = "none"
    /\ config = DefaultConfig
    /\ frame_extents = FALSE
    /\ cfg_last = [synthetic |-> FALSE, size |-> NoPos, position |-> NoPos,
                   before |-> DefaultConfig, extents_before |-> FALSE,
                   after |-> DefaultConfig, extents_after |-> FALSE,
                   registered |-> FALSE, moved |-> FALSE, emitted |-> <<>>]
    /\ cfg_n = 0

\* Window::new inserts WindowData with config: Default::default()
configure_Window_new ==
    /\ cfg_window = "none"
    /\ cfg_window' = "registered"
    /\ config' = DefaultConfig
    /\ UNCHANGED <<frame_extents, cfg_last, cfg_n>>
    /\ UNCHANGED <<vars, wkvars, wnvars, dndvars, scvars, cuvars, kyvars, msvars, dpvars,
                   covars, tmvars, rbvars, wdvars, mevars>>

\* DestroyNotify removes the WindowData of the window
configure_DestroyNotify ==
    /\ cfg_window = "registered"
    /\ cfg_window' = "removed"
    /\ config' = DefaultConfig
    /\ UNCHANGED <<frame_extents, cfg_last, cfg_n>>
    /\ UNCHANGED <<vars, wkvars, wnvars, dndvars, scvars, cuvars, kyvars, msvars, dpvars,
                   covars, tmvars, rbvars, wdvars, mevars>>

\* ReparentNotify drops the cached frame extents
ReparentNotify ==
    /\ cfg_window # "none" /\ cfg_n < MaxConfigEvents
    /\ frame_extents' = FALSE
    /\ cfg_n' = cfg_n + 1
    /\ UNCHANGED <<cfg_window, config, cfg_last>>
    /\ UNCHANGED <<vars, wkvars, wnvars, dndvars, scvars, cuvars, kyvars, msvars, dpvars,
                   covars, tmvars, rbvars, wdvars, mevars>>

\* (the window is marked moved whether the event is synthetic or not)
ConfigureNotify_flags_MovedOnReal(c, is_synthetic, new_size, new_position) ==
    [resized |-> c.size # new_size, moved |-> c.position # new_position]

\* the (resized, moved) pair computed under the lock on self.windows
ConfigureNotify_flags(c, is_synthetic, new_size, new_position) ==
    LET resized1 == c.size = NoPos
        size1 == IF resized1 THEN new_size ELSE c.size
        moved1 == size1 = NoPos /\ is_synthetic
        position1 == IF moved1 THEN new_position ELSE c.position
        resized2 == resized1 \/ size1 # new_size
        moved2 == moved1 \/ (is_synthetic /\ position1 # new_position)
    IN [resized |-> resized2, moved |-> moved2]

\* window_data.config after the same code
ConfigureNotify_config(c, is_synthetic, new_size, new_position) ==
    LET resized1 == c.size = NoPos
        size1 == IF resized1 THEN new_size ELSE c.size
        moved1 == size1 = NoPos /\ is_synthetic
        position1 == IF moved1 THEN new_position ELSE c.position
        size2 == IF ~resized1 /\ size1 # new_size THEN new_size ELSE size1
        position2 == IF ~moved1 /\ is_synthetic /\ position1 # new_position
                     THEN new_position ELSE position1
        inner_changed == ~is_synthetic /\ c.inner_position # new_position
    IN [size |-> size2,
        position |-> IF inner_changed THEN NoPos ELSE position2,
        inner_position |-> IF inner_changed THEN new_position ELSE c.inner_position]

\* (Moved handed to the callback before Resized)
ConfigureNotify_events_MovedFirst(flags, new_size, new_position, extents) ==
    (IF flags.moved THEN <<ConfigEvent("Moved", new_position, extents)>> ELSE <<>>)
        \o (IF flags.resized THEN <<ConfigEvent("Resized", new_size, FALSE)>> ELSE <<>>)

\* the events handed to the callback; Moved carries the position converted
\* with the frame extents, which are the cached ones if there are any
ConfigureNotify_events(flags, new_size, new_position, extents) ==
    (IF flags.resized THEN <<ConfigEvent("Resized", new_size, FALSE)>> ELSE <<>>)
        \o (IF flags.moved THEN <<ConfigEvent("Moved", new_position, extents)>> ELSE <<>>)

\* ConfigureNotify: returns at once for a window that is not registered
ConfigureNotify(is_synthetic, new_size, new_position) ==
    /\ cfg_window # "none" /\ cfg_n < MaxConfigEvents
    /\ cfg_n' = cfg_n + 1
    /\ IF cfg_window = "registered"
       THEN LET flags == ConfigureNotify_flags(config, is_synthetic, new_size, new_position)
                inner_changed == ~is_synthetic /\ config.inner_position # new_position
                extents1 == frame_extents /\ ~inner_changed
            IN /\ config' = ConfigureNotify_config(config, is_synthetic, new_size,
                                                   new_position)
               /\ frame_extents' = (extents1 \/ flags.moved)
               /\ cfg_last' = [synthetic |-> is_synthetic, size |-> new_size,
                               position |-> new_position, before |-> config,
                               extents_before |-> frame_extents,
                               after |-> config', extents_after |-> frame_extents',
                               registered |-> TRUE,
                               moved |-> flags.moved,
                               emitted |-> ConfigureNotify_events(flags, new_size,
                                                                  new_position, extents1)]
       ELSE /\ UNCHANGED <<config, frame_extents>>
            /\ cfg_last' = [synthetic |-> is_synthetic, size |-> new_size,
                            position |-> new_position, before |-> config,
                            extents_before |-> frame_extents,
                            after |-> config, extents_after |-> frame_extents,
                            registered |-> FALSE,
                            moved |-> FALSE, emitted |-> <<>>]
    /\ UNCHANGED cfg_window
    /\ UNCHANGED <<vars, wkvars, wnvars, dndvars, scvars, cuvars, kyvars, msvars, dpvars,
                   covars, tmvars, rbvars, wdvars, mevars>>

NextConfigure ==
    \/ configure_Window_new
    \/ configure_DestroyNotify
    \/ ReparentNotify
    \/ \E is_synthetic \in BOOLEAN, new_size \in ConfigSizes, new_position \in ConfigPositions :
           ConfigureNotify(is_synthetic, new_size, new_position)


\* ---- X11: KeyPress / KeyRelease and the input method -----------------------
Keycodes == {0} \cup (8 - KeycodeSpan .. 8 + KeycodeSpan)
Chars == 1 .. NumChars
\* what lookup_utf8 can return for one keystroke
WrittenStrings == UNION {[1 .. n -> Chars] : n \in 0 .. MaxWritten}

KeyEvent(kind, state, scancode, chr) ==
    [kind |-> kind, state |-> state, scancode |-> scancode, chr |-> chr]

InitKey ==
    /\ key_window = "none"
    /\ key_last = [type |-> "None", keycode |-> 0, filtered |-> FALSE, has_ic |-> FALSE,
                   written |-> <<>>, emitted |-> <<>>]
    /\ key_panicked = FALSE
    /\ key_n = 0

\* Window::new creates the input context of the window
key_Window_new ==
    /\ key_window = "none" /\ ~key_panicked
    /\ key_window' = "created"
    /\ UNCHANGED <<key_last, key_panicked, key_n>>
    /\ UNCHANGED <<vars, wkvars, wnvars, dndvars, scvars, cuvars, cfvars, msvars, dpvars,
                   covars, tmvars, rbvars, wdvars, mevars>>

\* DestroyNotify removes the input context of the window
key_DestroyNotify ==
    /\ key_window = "created" /\ ~key_panicked
    /\ key_window' = "destroyed"
    /\ UNCHANGED <<key_last, key_panicked, key_n>>
    /\ UNCHANGED <<vars, wkvars, wnvars, dndvars, scvars, cuvars, cfvars, msvars, dpvars,
                   covars, tmvars, rbvars, wdvars, mevars>>

\* xkev.keycode - 8 on a c_uint, which wraps around when overflow checks are
\* off; the 32-bit result is kept as its two 16-bit halves
Scancode(keycode) ==
    [hi |-> IF keycode < 8 THEN 2 ^ 16 - 1 ELSE 0, lo |-> (keycode - 8) % (2 ^ 16)]

\* (the characters handed to the callback before the KeyboardInput)
Key_events_CharsFirst(type, keycode, has_ic, written) ==
    (IF type = "KeyPress" /\ has_ic
     THEN [n \in 1 .. Len(written) |->
              KeyEvent("ReceivedCharacter", "None", Scancode(8), written[n])]
     ELSE <<>>)
    \o (IF keycode # 0
        THEN <<KeyEvent("KeyboardInput",
                        IF type = "KeyPress" THEN "Pressed" ELSE "Released",
                        Scancode(keycode), 0)>>
        ELSE <<>>)

\* the events the KeyPress | KeyRelease arm hands to the callback
Key_events(type, keycode, has_ic, written) ==
    (IF keycode # 0
     THEN <<KeyEvent("KeyboardInput",
                     IF type = "KeyPress" THEN "Pressed" ELSE "Released",
                     Scancode(keycode), 0)>>
     ELSE <<>>)
    \o (IF type = "KeyPress" /\ has_ic
        THEN [n \in 1 .. Len(written) |->
                 KeyEvent("ReceivedCharacter", "None", Scancode(8), written[n])]
        ELSE <<>>)

\* process_event for a KeyPress or KeyRelease: XFilterEvent first, then the
\* arm; with overflow checks the subtraction panics for a keycode in 1 .. 7
x11_KeyEvent(type, keycode, filtered, written, overflow_checks) ==
    /\ key_window # "none" /\ ~key_panicked /\ key_n < MaxKeyEvents
    /\ key_n' = key_n + 1
    /\ LET has_ic == key_window = "created"
           panics == ~filtered /\ overflow_checks /\ keycode # 0 /\ keycode < 8
       IN /\ key_panicked' = panics
          /\ key_last' = [type |-> type, keycode |-> keycode, filtered |-> filtered,
                          has_ic |-> has_ic, written |-> written,
                          emitted |-> IF filtered \/ panics THEN <<>>
                                      ELSE Key_events(type, keycode, has_ic, written)]
    /\ UNCHANGED key_window
    /\ UNCHANGED <<vars, wkvars, wnvars, dndvars, scvars, cuvars, cfvars, msvars, dpvars,
                   covars, tmvars, rbvars, wdvars, mevars>>

\* process_event for an XI_RawKeyPress or XI_RawKeyRelease: a keycode below
\* 8 is dropped, else DeviceEvent::Key is handed to the callback
x11_RawKeyEvent(type, keycode, filtered) ==
    /\ ~key_panicked /\ key_n < MaxKeyEvents
    /\ key_n' = key_n + 1
    /\ key_last' = [type |-> type, keycode |-> keycode, filtered |-> filtered,
                    has_ic |-> FALSE, written |-> <<>>,
                    emitted |-> IF filtered \/ keycode < 8 THEN <<>>
                                ELSE <<KeyEvent("Key",
                                         IF type = "RawKeyPress" THEN "Pressed" ELSE "Released",
                                         [hi |-> 0, lo |-> keycode - 8], 0)>>]
    /\ UNCHANGED <<key_window, key_panicked>>
    /\ UNCHANGED <<vars, wkvars, wnvars, dndvars, scvars, cuvars, cfvars, msvars, dpvars,
                   covars, tmvars, rbvars, wdvars, mevars>>

NextKey ==
    \/ key_Window_new
    \/ key_DestroyNotify
    \/ \E type \in {"KeyPress", "KeyRelease"}, keycode \in Keycodes, filtered \in BOOLEAN,
          written \in WrittenStrings, overflow_checks \in BOOLEAN :
           x11_KeyEvent(type, keycode, filtered, written, overflow_checks)
    \/ \E type \in {"RawKeyPress", "RawKeyRelease"}, keycode \in Keycodes, filtered \in BOOLEAN :
           x11_RawKeyEvent(type, keycode, filtered)


\* ---- Win32: WM_*BUTTONDOWN / WM_*BUTTONUP and the mouse capture ------------
MouseButtons == {"Left", "Right", "Middle", "X1", "X2"}

InitMouse ==
    /\ mouse_buttons_down = 0
    /\ mouse_captured = FALSE
    /\ mouse_held = {}
    /\ mouse_elsewhere = {}
    /\ mouse_last = [msg |-> "None", button |-> "None", released |-> FALSE]

\* capture_mouse: the counter after it (SetCapture follows)
capture_mouse(n) == n + 1

\* release_mouse: the counter after it; ReleaseCapture is called when it is 0
release_mouse(n) == IF n = 0 THEN 0 ELSE n - 1

\* WM_LBUTTONDOWN, WM_RBUTTONDOWN, WM_MBUTTONDOWN, WM_XBUTTONDOWN: a button
\* goes down over the client area, or anywhere while the window has the capture
WM_BUTTONDOWN(b) ==
    /\ b \notin mouse_held \cup mouse_elsewhere
    /\ mouse_buttons_down' = capture_mouse(mouse_buttons_down)
    /\ mouse_captured' = TRUE
    /\ mouse_held' = mouse_held \cup {b}
    /\ mouse_last' = [msg |-> "Down", button |-> b, released |-> FALSE]
    /\ UNCHANGED mouse_elsewhere
    /\ UNCHANGED <<vars, wkvars, wnvars, dndvars, scvars, cuvars, cfvars, kyvars, dpvars,
                   covars, tmvars, rbvars, wdvars, mevars>>

\* WM_LBUTTONUP, WM_RBUTTONUP, WM_MBUTTONUP, WM_XBUTTONUP: a held button goes
\* up over the client area, or anywhere while the window has the capture
WM_BUTTONUP(b) ==
    /\ b \in mouse_held \cup mouse_elsewhere
    /\ mouse_buttons_down' = release_mouse(mouse_buttons_down)
    /\ mouse_captured' = (mouse_captured /\ mouse_buttons_down' # 0)
    /\ mouse_held' = mouse_held \ {b}
    /\ mouse_elsewhere' = mouse_elsewhere \ {b}
    /\ mouse_last' = [msg |-> "Up", button |-> b, released |-> mouse_buttons_down' = 0]
    /\ UNCHANGED <<vars, wkvars, wnvars, dndvars, scvars, cuvars, cfvars, kyvars, dpvars,
                   covars, tmvars, rbvars, wdvars, mevars>>

\* a button goes down outside the client area of a window that has no
\* capture: the window gets no message
ButtonDownElsewhere(b) ==
    /\ ~mouse_captured
    /\ b \notin mouse_held \cup mouse_elsewhere
    /\ mouse_elsewhere' = mouse_elsewhere \cup {b}
    /\ UNCHANGED <<mouse_buttons_down, mouse_captured, mouse_held, mouse_last>>
    /\ UNCHANGED <<vars, wkvars, wnvars, dndvars, scvars, cuvars, cfvars, kyvars, dpvars,
                   covars, tmvars, rbvars, wdvars, mevars>>

\* a held button goes up outside the client area of a window that has no
\* capture: the window gets no message
ButtonUpElsewhere(b) ==
    /\ ~mouse_captured
    /\ b \in mouse_held \cup mouse_elsewhere
    /\ mouse_held' = mouse_held \ {b}
    /\ mouse_elsewhere' = mouse_elsewhere \ {b}
    /\ UNCHANGED <<mouse_buttons_down, mouse_captured, mouse_last>>
    /\ UNCHANGED <<vars, wkvars, wnvars, dndvars, scvars, cuvars, cfvars, kyvars, dpvars,
                   covars, tmvars, rbvars, wdvars, mevars>>

NextMouse ==
    \/ \E b \in MouseButtons : WM_BUTTONDOWN(b)
    \/ \E b \in MouseButtons : WM_BUTTONUP(b)
    \/ \E b \in MouseButtons : ButtonDownElsewhere(b)
    \/ \E b \in MouseButtons : ButtonUpElsewhere(b)


\* ---- Win32: WM_DPICHANGED and the initial DPI message ----------------------
DpiFactors == 1 .. MaxDpiFactor
\* Option::None of a size, of SavedWindowInfo and of its dpi_factor
NoSize == [num |-> 0, den |-> 0]
NoSaved == [saved |-> FALSE, is_fullscreen |-> FALSE, dpi_factor |-> 0]
SavedWindowInfo(is_fullscreen, f) ==
    [saved |-> TRUE, is_fullscreen |-> is_fullscreen, dpi_factor |-> f]

DpiEvent(kind, value, cause) == [kind |-> kind, value |-> value, cause |-> cause]

InitDpi ==
    /\ dpi_factor = 1
    /\ saved_window_info = NoSaved
    /\ min_size = [num |-> 1, den |-> 1]
    /\ max_size = NoSize
    /\ dpi_log = <<>>
    /\ dpi_last = [msg |-> "None", suppress |-> FALSE, old |-> 0, new |-> 0,
                   min_before |-> NoSize, max_before |-> NoSize]
    /\ dpi_n = 0

\* the dpi_adjuster of update_min_max: one size multiplied by new / old
dpi_adjuster(size, old, new) ==
    IF size = NoSize THEN NoSize ELSE [num |-> size.num * new, den |-> size.den * old]

\* the window enters or leaves fullscreen, which saves, changes or clears
\* the saved window info
set_fullscreen(info) ==
    /\ saved_window_info' = info
    /\ info # saved_window_info
    /\ UNCHANGED <<dpi_factor, min_size, max_size, dpi_log, dpi_last, dpi_n>>
    /\ UNCHANGED <<vars, wkvars, wnvars, dndvars, scvars, cuvars, cfvars, kyvars, msvars,
                   covars, tmvars, rbvars, wdvars, mevars>>

\* suppress_resize as computed under the lock on window_state
suppress_resize(info, new_dpi_factor) ==
    IF ~info.saved THEN FALSE
    ELSE LET dpi_changed == IF ~info.is_fullscreen
                            THEN info.dpi_factor # new_dpi_factor ELSE FALSE
         IN ~dpi_changed \/ info.is_fullscreen

\* WM_DPICHANGED: SetWindowPos sends WM_SIZE to the window procedure before
\* it returns when the suggested size differs from the current one, and the
\* WM_SIZE handler sends Resized
WM_DPICHANGED(new_dpi_factor, size_differs) ==
    /\ dpi_n < MaxDpiMsgs
    /\ dpi_n' = dpi_n + 1
    /\ LET suppress == suppress_resize(saved_window_info, new_dpi_factor)
       IN /\ saved_window_info' =
                 IF saved_window_info.saved /\ ~saved_window_info.is_fullscreen
                 THEN [saved_window_info EXCEPT !.dpi_factor = 0]
                 ELSE saved_window_info
          /\ min_size' = IF suppress THEN min_size
                         ELSE dpi_adjuster(min_size, dpi_factor, new_dpi_factor)
          /\ max_size' = IF suppress THEN max_size
                         ELSE dpi_adjuster(max_size, dpi_factor, new_dpi_factor)
          /\ dpi_factor' = new_dpi_factor
          /\ dpi_log' = dpi_log
                 \o (IF ~suppress /\ size_differs
                     THEN <<DpiEvent("Resized", new_dpi_factor, dpi_n')>> ELSE <<>>)
                 \o <<DpiEvent("HiDpiFactorChanged", new_dpi_factor, dpi_n')>>
          /\ dpi_last' = [msg |-> "WM_DPICHANGED", suppress |-> suppress,
                          old |-> dpi_factor, new |-> new_dpi_factor,
                          min_before |-> min_size, max_before |-> max_size]
    /\ UNCHANGED <<vars, wkvars, wnvars, dndvars, scvars, cuvars, cfvars, kyvars, msvars,
                   covars, tmvars, rbvars, wdvars, mevars>>

\* INITIAL_DPI_MSG_ID: HiDpiFactorChanged is sent, then SetWindowPos resizes
\* the window for the actual DPI
INITIAL_DPI_MSG(scale_factor, size_differs) ==
    /\ dpi_n < MaxDpiMsgs
    /\ dpi_n' = dpi_n + 1
    /\ dpi_log' = dpi_log
           \o <<DpiEvent("HiDpiFactorChanged", scale_factor, dpi_n')>>
           \o (IF size_differs THEN <<DpiEvent("Resized", scale_factor, dpi_n')>> ELSE <<>>)
    /\ dpi_last' = [msg |-> "INITIAL_DPI_MSG", suppress |-> FALSE,
                    old |-> dpi_factor, new |-> scale_factor,
                    min_before |-> min_size, max_before |-> max_size]
    /\ UNCHANGED <<dpi_factor, saved_window_info, min_size, max_size>>
    /\ UNCHANGED <<vars, wkvars, wnvars, dndvars, scvars, cuvars, cfvars, kyvars, msvars,
                   covars, tmvars, rbvars, wdvars, mevars>>

SavedInfos ==
    {NoSaved} \cup {SavedWindowInfo(fs, f) : fs \in BOOLEAN, f \in {0} \cup DpiFactors}

NextDpi ==
    \/ \E info \in SavedInfos : set_fullscreen(info)
    \/ \E new_dpi_factor \in DpiFactors, size_differs \in BOOLEAN :
           WM_DPICHANGED(new_dpi_factor, size_differs)
    \/ \E scale_factor \in DpiFactors, size_differs \in BOOLEAN :
           INITIAL_DPI_MSG(scale_factor, size_differs)


\* ---- Cocoa: the event loop -------------------------------------------------
\* an event handed to the callback: its kind, its StartCause or payload, the
\* number it was queued with (0 when it was not queued) and the control flow
\* the callback was handed with it
CocoaEvent(k, v, id) == [k |-> k, v |-> v, id |-> id, cf |-> Poll]
Handed(e, cf) == [e EXCEPT !.cf = cf]
NoCocoaEvent == CocoaEvent("None", "-", 0)

\* what one run of the handler leaves in *control_flow: the callback is
\* handed &mut control_flow with every event and may assign it
CocoaWrites == IF co_writes < MaxCocoaWrites THEN ControlFlow ELSE {co_control_flow}
CocoaWritten(cf) == co_writes' = IF cf # co_control_flow THEN co_writes + 1 ELSE co_writes

InitCocoa ==
    /\ co_control_flow = Poll
    /\ co_control_flow_prev = Poll
    /\ co_callback = FALSE
    /\ co_waker = "default"
    /\ co_pending = <<>>
    /\ co_delivered = <<>>
    /\ co_returned = NoCocoaEvent
    /\ co_phase = "norun"
    /\ co_stop = FALSE
    /\ co_panicked = FALSE
    /\ co_turns = 0
    /\ co_queued = 0
    /\ co_writes = 0

\* EventLoop::run up to [app run]: the callback is installed
cocoa_run ==
    /\ co_phase = "norun"
    /\ co_callback' = TRUE
    /\ co_phase' = "launching"
    /\ UNCHANGED <<co_control_flow, co_control_flow_prev, co_waker, co_pending,
                   co_delivered, co_returned, co_stop, co_panicked, co_turns,
                   co_queued, co_writes>>
    /\ UNCHANGED <<vars, wkvars, wnvars, dndvars, scvars, cuvars, cfvars, kyvars, msvars,
                   dpvars, tmvars, rbvars, wdvars, mevars>>

\* Handler::launched
cocoa_launched(cf) ==
    /\ co_phase = "launching" /\ ~co_panicked
    /\ cf \in CocoaWrites
    /\ co_waker' = "start"
    /\ IF co_callback
       THEN /\ co_delivered' = Append(co_delivered,
                                      Handed(CocoaEvent("NewEvents", "Init", 0),
                                             co_control_flow))
            /\ co_control_flow' = cf
            /\ CocoaWritten(cf)
       ELSE UNCHANGED <<co_delivered, co_control_flow, co_writes>>
    /\ co_phase' = "turn"
    /\ UNCHANGED <<co_control_flow_prev, co_callback, co_pending, co_returned, co_stop,
                   co_panicked, co_turns, co_queued>>
    /\ UNCHANGED <<vars, wkvars, wnvars, dndvars, scvars, cuvars, cfvars, kyvars, msvars,
                   dpvars, tmvars, rbvars, wdvars, mevars>>

\* Handler::wakeup, called when the run loop comes out of waiting
cocoa_wakeup(cf) ==
    /\ co_phase = "waiting" /\ ~co_panicked /\ co_turns < MaxCocoaTurns
    /\ cf \in CocoaWrites
    /\ co_turns' = co_turns + 1
    /\ co_control_flow_prev' = co_control_flow
    /\ IF co_control_flow \in {Poll, Exit}
       THEN /\ IF co_callback
               THEN /\ co_delivered' = Append(co_delivered,
                                              Handed(CocoaEvent("NewEvents", "Poll", 0),
                                                     co_control_flow))
                    /\ co_control_flow' = cf
                    /\ CocoaWritten(cf)
               ELSE UNCHANGED <<co_delivered, co_control_flow, co_writes>>
            /\ co_phase' = "turn"
            /\ UNCHANGED co_panicked
       ELSE /\ co_panicked' = TRUE
            /\ UNCHANGED <<co_delivered, co_control_flow, co_writes, co_phase>>
    /\ UNCHANGED <<co_callback, co_waker, co_pending, co_returned, co_stop, co_queued>>
    /\ UNCHANGED <<vars, wkvars, wnvars, dndvars, scvars, cuvars, cfvars, kyvars, msvars,
                   dpvars, tmvars, rbvars, wdvars, mevars>>

\* PendingEvents::queue_event, called by the window and view delegates
cocoa_queue_event ==
    /\ co_phase = "turn" /\ ~co_panicked /\ co_queued < MaxCocoaEvents
    /\ co_queued' = co_queued + 1
    /\ co_pending' = Append(co_pending, CocoaEvent("WindowEvent", "-", co_queued'))
    /\ UNCHANGED <<co_control_flow, co_control_flow_prev, co_callback, co_waker,
                   co_delivered, co_returned, co_phase, co_stop, co_panicked, co_turns,
                   co_writes>>
    /\ UNCHANGED <<vars, wkvars, wnvars, dndvars, scvars, cuvars, cfvars, kyvars, msvars,
                   dpvars, tmvars, rbvars, wdvars, mevars>>

\* the DeviceEvents translate_event builds for a mouse movement, numbered
\* from n + 1
MotionEvents(delta_x, delta_y, n) ==
    LET xs == IF delta_x # 0 THEN <<"Motion0">> ELSE <<>>
        ys == IF delta_y # 0 THEN <<"Motion1">> ELSE <<>>
        ms == IF delta_x # 0 \/ delta_y # 0 THEN <<"MouseMotion">> ELSE <<>>
        ks == xs \o ys \o ms
    IN [i \in 1 .. Len(ks) |-> CocoaEvent("DeviceEvent", ks[i], n + i)]

\* EventLoop::translate_event for a mouse movement on one of our windows:
\* the first event is returned, the others are queued
cocoa_translate_event(delta_x, delta_y) ==
    /\ co_phase = "turn" /\ ~co_panicked /\ co_queued + 3 <= MaxCocoaEvents
    /\ LET events == MotionEvents(delta_x, delta_y, co_queued)
       IN /\ co_returned' = IF events = <<>> THEN NoCocoaEvent ELSE Head(events)
          /\ co_pending' = co_pending \o (IF events = <<>> THEN <<>> ELSE Tail(events))
          /\ co_queued' = co_queued + Len(events)
    /\ UNCHANGED <<co_control_flow, co_control_flow_prev, co_callback, co_waker,
                   co_delivered, co_phase, co_stop, co_panicked, co_turns, co_writes>>
    /\ UNCHANGED <<vars, wkvars, wnvars, dndvars, scvars, cuvars, cfvars, kyvars, msvars,
                   dpvars, tmvars, rbvars, wdvars, mevars>>

\* what Handler::cleared hands to the callback: EventsCleared, then the
\* events taken from PendingEvents
cleared_events(pending) == <<CocoaEvent("EventsCleared", "-", 0)>> \o pending

\* what Handler::cleared tells the waker or the application
cleared_waker(old, new, waker) ==
    CASE old = new /\ new.t \in {"Poll", "Wait", "WaitUntil"} -> waker
      [] old # new /\ new = Wait -> "stop"
      [] old # new /\ new.t = "WaitUntil" -> "start_at"
      [] old # new /\ new = Poll -> "start"
      [] OTHER -> waker

\* Handler::cleared, called when the run loop is about to wait
cocoa_cleared(cf) ==
    /\ co_phase = "turn" /\ ~co_panicked
    /\ cf \in CocoaWrites
    /\ IF co_callback
       THEN /\ co_delivered' = co_delivered \o
                   [i \in 1 .. Len(co_pending) + 1 |->
                       Handed(cleared_events(co_pending)[i],
                              IF i = 1 THEN co_control_flow ELSE cf)]
            /\ co_pending' = <<>>
            /\ co_control_flow' = cf
            /\ CocoaWritten(cf)
       ELSE UNCHANGED <<co_delivered, co_pending, co_control_flow, co_writes>>
    /\ co_waker' = cleared_waker(co_control_flow_prev, co_control_flow', co_waker)
    /\ co_stop' = (co_stop \/ co_control_flow' = Exit)
    /\ co_phase' = "waiting"
    /\ UNCHANGED <<co_control_flow_prev, co_callback, co_returned, co_panicked, co_turns,
                   co_queued>>
    /\ UNCHANGED <<vars, wkvars, wnvars, dndvars, scvars, cuvars, cfvars, kyvars, msvars,
                   dpvars, tmvars, rbvars, wdvars, mevars>>

\* [app run] returns once stop: has taken effect; EventLoop::run takes the
\* callback, hands it LoopDestroyed and exits
cocoa_run_returns ==
    /\ co_stop /\ co_phase \in {"waiting", "turn"} /\ ~co_panicked
    /\ co_callback' = FALSE
    /\ co_delivered' = IF co_callback
                       THEN Append(co_delivered,
                                   Handed(CocoaEvent("LoopDestroyed", "-", 0),
                                          co_control_flow))
                       ELSE co_delivered
    /\ co_phase' = "exited"
    /\ UNCHANGED <<co_control_flow, co_control_flow_prev, co_waker, co_pending,
                   co_returned, co_stop, co_panicked, co_turns, co_queued, co_writes>>
    /\ UNCHANGED <<vars, wkvars, wnvars, dndvars, scvars, cuvars, cfvars, kyvars, msvars,
                   dpvars, tmvars, rbvars, wdvars, mevars>>

NextCocoa ==
    \/ cocoa_run
    \/ \E cf \in ControlFlow : cocoa_launched(cf)
    \/ \E cf \in ControlFlow : cocoa_wakeup(cf)
    \/ cocoa_queue_event
    \/ \E delta_x \in 0 .. 1, delta_y \in 0 .. 1 : cocoa_translate_event(delta_x, delta_y)
    \/ \E cf \in ControlFlow : cocoa_cleared(cf)
    \/ cocoa_run_returns


\* ---- Win32: wait_until_time_or_msg and dur2timeout --------------------------
\* The integer types keep their behaviour at a smaller width: a DWORD has
\* DwordBits bits and a u64 has U64Bits bits (the code's 1000 and 1_000_000
\* are kept, so a duration of a few seconds goes through every branch).
DwordBits == 12
U64Bits == 14
DWORD_max_value == 2^DwordBits - 1
u64_max_value == 2^U64Bits - 1
INFINITE == DWORD_max_value          \* winbase::INFINITE is 0xFFFFFFFF
None == 0 - 1

\* Duration: (seconds, nanoseconds below one second)
SubsecNanos ==
    {0, 1, 999999, 1000000, 95000000, 95000001, 383000000, 383000001, 999999999}
Durations == [secs : 0 .. MaxSecs, nanos : SubsecNanos]

checked_mul(a, b) == IF a = None \/ a * b > u64_max_value THEN None ELSE a * b
checked_add(a, b) == IF a = None \/ a + b > u64_max_value THEN None ELSE a + b
saturating_sub(a, b) == IF a < b THEN 0 ELSE a - b

dur2timeout(dur) ==
    LET ms0 == checked_mul(dur.secs, 1000)
        ms1 == checked_add(ms0, dur.nanos \div 1000000)
        ms2 == checked_add(ms1, IF dur.nanos % 1000000 > 0 THEN 1 ELSE 0)
    IN IF ms2 = None THEN INFINITE
       ELSE IF ms2 > DWORD_max_value THEN INFINITE ELSE ms2

InitTimeout ==
    tm_last = [called |-> FALSE, past |-> FALSE, dur |-> [secs |-> 0, nanos |-> 0],
               timeout |-> None, returned |-> TRUE]

\* wait_until_time_or_msg(wait_until) called when wait_until is dur after
\* now (past: it is before now, and nothing is waited for).  timed_out:
\* MsgWaitForMultipleObjectsEx returned WAIT_TIMEOUT; peeked: a message
\* arrived during the spin that follows.
wait_until_time_or_msg(past, dur, timed_out, peeked) ==
    /\ tm_last' = [called |-> TRUE, past |-> past,
                   dur |-> IF past THEN [secs |-> 0, nanos |-> 0] ELSE dur,
                   timeout |-> IF past THEN None
                               ELSE saturating_sub(dur2timeout(dur), 1),
                   returned |-> ~(~past /\ timed_out /\ peeked)]
    /\ UNCHANGED <<vars, wkvars, wnvars, dndvars, scvars, cuvars, cfvars, kyvars, msvars,
                   dpvars, covars, rbvars, wdvars, mevars>>

NextTimeout ==
    \E past \in BOOLEAN, dur \in Durations, timed_out \in BOOLEAN, peeked \in BOOLEAN :
        wait_until_time_or_msg(past, dur, timed_out, peeked)


\* ---- Win32: who borrows ELRShared.runner -------------------------------------
\* The messages of public_window_callback and thread_event_target_callback
\* that touch the runner.  Input stands for every message whose handler calls
\* send_event; ThreadPaint is the WM_PAINT of the thread message target.
BorrowMessages ==
    {"WM_ENTERSIZEMOVE", "WM_EXITSIZEMOVE", "WM_PAINT", "REQUEST_REDRAW_NO_NEWEVENTS",
     "ThreadPaint", "Input"}

\* how the handler of a message gets at the runner
BorrowKind(m) == IF m = "Input" THEN "try_borrow_mut" ELSE "borrow_mut"

\* RefCell::borrow_mut panics when the cell is already borrowed
borrow_mut_panics(borrowed) == borrowed

\* whether the handler of m, with the borrow taken, calls the user callback:
\* idle says that the runner is Idle or DeferredNewEvents
CallsCallback(m, idle, modal) ==
    CASE m \in {"WM_ENTERSIZEMOVE", "WM_EXITSIZEMOVE"} -> FALSE
      [] m = "WM_PAINT" -> TRUE                 \* directly, or through send_event
      [] m = "REQUEST_REDRAW_NO_NEWEVENTS" -> idle
      [] m = "ThreadPaint" -> modal /\ ~idle    \* events_cleared while HandlingEvents
      [] m = "Input" -> TRUE                    \* process_event

InitBorrow ==
    /\ rb_borrowed = FALSE
    /\ rb_holder = "none"
    /\ rb_in_callback = FALSE
    /\ rb_in_modal_loop = FALSE
    /\ rb_buffered = 0
    /\ rb_panicked = FALSE
    /\ rb_last = [m |-> "none", nested |-> FALSE]
    /\ rb_n = 0

\* run_return: runner!().new_events() / events_cleared(), or the flush of the
\* buffer with runner_ref held; the hook calls the callback
rb_run_return_hook(h) ==
    /\ ~rb_panicked /\ ~rb_borrowed /\ ~rb_in_callback
    /\ rb_borrowed' = TRUE
    /\ rb_holder' = h
    /\ rb_in_callback' = TRUE
    /\ UNCHANGED <<rb_in_modal_loop, rb_buffered, rb_panicked, rb_last, rb_n>>
    /\ UNCHANGED <<vars, wkvars, wnvars, dndvars, scvars, cuvars, cfvars, kyvars, msvars,
                   dpvars, covars, tmvars, wdvars, mevars>>

\* DispatchMessageW from the loop (run_return, or the modal loop of the
\* system): the window procedure runs with the cell not borrowed
rb_DispatchMessage(m, idle) ==
    /\ ~rb_panicked /\ ~rb_borrowed /\ ~rb_in_callback /\ rb_n < MaxBorrowMsgs
    /\ rb_n' = rb_n + 1
    /\ rb_last' = [m |-> m, nested |-> FALSE]
    /\ rb_in_modal_loop' = CASE m = "WM_ENTERSIZEMOVE" -> TRUE
                             [] m = "WM_EXITSIZEMOVE" -> FALSE
                             [] OTHER -> rb_in_modal_loop
    /\ IF CallsCallback(m, idle, rb_in_modal_loop)
       THEN rb_borrowed' = TRUE /\ rb_holder' = m /\ rb_in_callback' = TRUE
       ELSE UNCHANGED <<rb_borrowed, rb_holder, rb_in_callback>>
    /\ UNCHANGED <<rb_buffered, rb_panicked>>
    /\ UNCHANGED <<vars, wkvars, wnvars, dndvars, scvars, cuvars, cfvars, kyvars, msvars,
                   dpvars, covars, tmvars, wdvars, mevars>>

\* The user callback calls a function that has a window procedure of the loop
\* run for message m before it returns (a function that sends the message, or
\* one that runs a message loop of its own).  send_event finds try_borrow_mut
\* failing and buffers the event; every other handler calls borrow_mut.
rb_callback_dispatches(m) ==
    /\ ~rb_panicked /\ rb_in_callback /\ rb_n < MaxBorrowMsgs
    /\ rb_n' = rb_n + 1
    /\ rb_last' = [m |-> m, nested |-> TRUE]
    /\ IF BorrowKind(m) = "borrow_mut"
       THEN /\ rb_panicked' = borrow_mut_panics(rb_borrowed)
            /\ UNCHANGED rb_buffered
       ELSE /\ rb_buffered' = rb_buffered + 1
            /\ UNCHANGED rb_panicked
    /\ UNCHANGED <<rb_borrowed, rb_holder, rb_in_callback, rb_in_modal_loop>>
    /\ UNCHANGED <<vars, wkvars, wnvars, dndvars, scvars, cuvars, cfvars, kyvars, msvars,
                   dpvars, covars, tmvars, wdvars, mevars>>

\* the callback returns and the hook or handler drops its borrow
rb_callback_returns ==
    /\ ~rb_panicked /\ rb_in_callback
    /\ rb_in_callback' = FALSE
    /\ rb_borrowed' = FALSE
    /\ rb_holder' = "none"
    /\ UNCHANGED <<rb_in_modal_loop, rb_buffered, rb_panicked, rb_last, rb_n>>
    /\ UNCHANGED <<vars, wkvars, wnvars, dndvars, scvars, cuvars, cfvars, kyvars, msvars,
                   dpvars, covars, tmvars, wdvars, mevars>>

NextBorrow ==
    \/ \E h \in {"flush", "new_events", "events_cleared", "LoopDestroyed"} :
           rb_run_return_hook(h)
    \/ \E m \in BorrowMessages, idle \in BOOLEAN : rb_DispatchMessage(m, idle)
    \/ \E m \in BorrowMessages : rb_callback_dispatches(m)
    \/ rb_callback_returns


\* ---- X11: Drop for Window against DestroyNotify ------------------------------
\* Drop for Window may run on any thread; EventsLoop.windows is behind a
\* mutex.  The guard taken in the condition of the `if let` lives until the
\* end of the statement, so the lock is held over XDestroyWindow.
\* wd_hist[w]: removed: number of remove() calls that returned Some;
\* destroy_calls: number of XDestroyWindow calls; notified: the dispatcher
\* has processed a DestroyNotify for w; late: XDestroyWindow was called
\* with notified already true.
DroppedIds == 1 .. NumDropped

InitDrop ==
    /\ wd_handle = [w \in DroppedIds |-> "none"]
    /\ wd_registry = {}
    /\ wd_lock = 0
    /\ wd_server = {}
    /\ wd_evq = <<>>
    /\ wd_hist = [w \in DroppedIds |->
                     [removed |-> 0, destroy_calls |-> 0, notified |-> FALSE, late |-> FALSE]]

\* Window::new, on the thread of the EventsLoop
wd_Window_new(w) ==
    /\ wd_handle[w] = "none" /\ wd_lock = 0
    /\ wd_handle' = [wd_handle EXCEPT ![w] = "alive"]
    /\ wd_registry' = wd_registry \cup {w}
    /\ wd_server' = wd_server \cup {w}
    /\ UNCHANGED <<wd_lock, wd_evq, wd_hist>>
    /\ UNCHANGED <<vars, wkvars, wnvars, dndvars, scvars, cuvars, cfvars, kyvars, msvars,
                   dpvars, covars, tmvars, rbvars, mevars>>

\* Drop calling XDestroyWindow whatever remove() returned
drop_destroys_Always(removed) == TRUE

\* if let Some(_) = windows.lock().remove(&id) { XDestroyWindow }
drop_destroys(removed) == removed

\* Drop for Window: windows.lock().remove(&self.window.id())
wd_drop_remove(w) ==
    /\ wd_handle[w] = "alive" /\ wd_lock = 0
    /\ LET removed == w \in wd_registry
       IN /\ wd_registry' = wd_registry \ {w}
          /\ wd_hist' = [wd_hist EXCEPT ![w].removed = IF removed THEN @ + 1 ELSE @]
          /\ IF drop_destroys(removed)
             THEN wd_handle' = [wd_handle EXCEPT ![w] = "removing"] /\ wd_lock' = w
             ELSE wd_handle' = [wd_handle EXCEPT ![w] = "dropped"] /\ wd_lock' = 0
    /\ UNCHANGED <<wd_server, wd_evq>>
    /\ UNCHANGED <<vars, wkvars, wnvars, dndvars, scvars, cuvars, cfvars, kyvars, msvars,
                   dpvars, covars, tmvars, rbvars, mevars>>

\* ... XDestroyWindow, then the guard is released; the server reports
\* DestroyNotify for a window that existed (BadWindow and no event otherwise)
wd_drop_XDestroyWindow(w) ==
    /\ wd_handle[w] = "removing" /\ wd_lock = w
    /\ wd_handle' = [wd_handle EXCEPT ![w] = "dropped"]
    /\ wd_lock' = 0
    /\ wd_hist' = [wd_hist EXCEPT ![w].destroy_calls = @ + 1,
                                  ![w].late = @ \/ wd_hist[w].notified]
    /\ IF w \in wd_server
       THEN wd_server' = wd_server \ {w} /\ wd_evq' = Append(wd_evq, w)
       ELSE UNCHANGED <<wd_server, wd_evq>>
    /\ UNCHANGED wd_registry
    /\ UNCHANGED <<vars, wkvars, wnvars, dndvars, scvars, cuvars, cfvars, kyvars, msvars,
                   dpvars, covars, tmvars, rbvars, mevars>>

\* the window is destroyed by the platform (window manager, another client)
wd_PlatformDestroy(w) ==
    /\ w \in wd_server
    /\ wd_server' = wd_server \ {w}
    /\ wd_evq' = Append(wd_evq, w)
    /\ UNCHANGED <<wd_handle, wd_registry, wd_lock, wd_hist>>
    /\ UNCHANGED <<vars, wkvars, wnvars, dndvars, scvars, cuvars, cfvars, kyvars, msvars,
                   dpvars, covars, tmvars, rbvars, mevars>>

\* process_event, DestroyNotify: self.windows.lock().remove(..), Destroyed
wd_DestroyNotify ==
    /\ wd_evq # <<>> /\ wd_lock = 0
    /\ LET w == Head(wd_evq)
       IN /\ wd_registry' = wd_registry \ {w}
          /\ wd_hist' = [wd_hist EXCEPT ![w].removed = IF w \in wd_registry THEN @ + 1 ELSE @,
                                        ![w].notified = TRUE]
    /\ wd_evq' = Tail(wd_evq)
    /\ UNCHANGED <<wd_handle, wd_lock, wd_server>>
    /\ UNCHANGED <<vars, wkvars, wnvars, dndvars, scvars, cuvars, cfvars, kyvars, msvars,
                   dpvars, covars, tmvars, rbvars, mevars>>

NextDrop ==
    \/ \E w \in DroppedIds : wd_Window_new(w)
    \/ \E w \in DroppedIds : wd_drop_remove(w)
    \/ \E w \in DroppedIds : wd_drop_XDestroyWindow(w)
    \/ \E w \in DroppedIds : wd_PlatformDestroy(w)
    \/ wd_DestroyNotify


\* ---- Win32: WM_MOUSEMOVE / WM_MOUSELEAVE -------------------------------------
\* The events are taken where the window procedure sends them (send_event).
CursorEvt(kind, x) == [kind |-> kind, x |-> x]

\* a window is created with the cursor counted as outside it
InitEnter ==
    /\ mouse_in_window = FALSE
    /\ me_log = <<>>
    /\ me_n = 0

\* the events of WM_MOUSEMOVE at client position x
WM_MOUSEMOVE_events(in_window, x) ==
    (IF ~in_window THEN <<CursorEvt("CursorEntered", 0)>> ELSE <<>>)
    \o <<CursorEvt("CursorMoved", x)>>

\* WM_MOUSELEAVE sending CursorLeft whether or not the cursor was inside
WM_MOUSELEAVE_events_Always(in_window) == <<CursorEvt("CursorLeft", 0)>>

\* the events of WM_MOUSELEAVE
WM_MOUSELEAVE_events(in_window) ==
    IF in_window THEN <<CursorEvt("CursorLeft", 0)>> ELSE <<>>

WM_MOUSEMOVE(x) ==
    /\ me_n < MaxMouseMsgs
    /\ me_n' = me_n + 1
    /\ mouse_in_window' = TRUE
    /\ me_log' = me_log \o WM_MOUSEMOVE_events(mouse_in_window, x)
    /\ UNCHANGED <<vars, wkvars, wnvars, dndvars, scvars, cuvars, cfvars, kyvars, msvars,
                   dpvars, covars, tmvars, rbvars, wdvars>>

WM_MOUSELEAVE ==
    /\ me_n < MaxMouseMsgs
    /\ me_n' = me_n + 1
    /\ mouse_in_window' = FALSE
    /\ me_log' = me_log \o WM_MOUSELEAVE_events(mouse_in_window)
    /\ UNCHANGED <<vars, wkvars, wnvars, dndvars, scvars, cuvars, cfvars, kyvars, msvars,
                   dpvars, covars, tmvars, rbvars, wdvars>>

NextEnter ==
    \/ \E x \in 0 .. MaxXY : WM_MOUSEMOVE(x)
    \/ WM_MOUSELEAVE

\* ---- the specification ---------------------------------------------------
\* EventLoop::with_dpi_awareness
Init ==
    /\ runner_some = FALSE
    /\ runner_state = New
    /\ control_flow = Poll
    /\ in_modal_loop = FALSE
    /\ buffer = <<>>
    /\ trigger = TRUE
    /\ redraw_pending = FALSE
    /\ chan = <<>>
    /\ panicked = FALSE
    /\ delivered = <<>>
    /\ next_id = 1
    /\ nested = 0
    /\ writes = 0
    /\ pc = "norun"
    /\ msg = NoMsg
    /\ msg_unprocessed = FALSE
    /\ msgq = <<>>
    /\ now = 0
    /\ runs = 0
    /\ proxy_pc = [p \in Proxies |-> 0]
    /\ dropped = FALSE
    /\ enq = <<>>
    /\ returned = {}
    /\ modals = 0
    /\ InitWakeup
    /\ InitWindows
    /\ InitDnd
    /\ InitScroll
    /\ InitCursor
    /\ InitConfigure
    /\ InitKey
    /\ InitMouse
    /\ InitDpi
    /\ InitCocoa
    /\ InitTimeout
    /\ InitBorrow
    /\ InitDrop
    /\ InitEnter

Next ==
    \/ RunReturn
    \/ FlushOne
    \/ FlushDone
    \/ LoopNewEvents
    \/ LoopDispatch
    \/ LoopThreadPaint
    \/ LoopEventsCleared
    \/ LoopGetMessage
    \/ LoopWaitUntil
    \/ LoopDestroy
    \/ ModalDispatch
    \/ ModalExit
    \/ ThreadPaintBegin
    \/ ThreadPaintFlush
    \/ ThreadPaintRequeue
    \/ ThreadPaintCleared
    \/ ThreadPaintAfterWait
    \/ \E k \in PostedKinds : PostMessage(k)
    \/ PostSizeMove
    \/ SendEventOutside
    \/ \E p \in Proxies : ProxyPost(p)
    \/ \E p \in Proxies : ProxySend(p)
    \/ DropEventLoop
    \/ Tick

Spec == Init /\ [][Next]_vars

\* the X11 dispatcher tracking a scroll axis
SpecScroll == Init /\ [][NextScroll]_scvars

\* the X11 dispatcher receiving drags
SpecDnd == Init /\ [][NextDnd]_dndvars

\* the X11 dispatcher with windows created, dropped and destroyed
SpecWindows == Init /\ [][NextWindows]_wnvars

\* the X11 proxy and dispatcher, with the EventsLoop possibly dropped
SpecWakeup == Init /\ [][NextWakeup]_wkvars

\* the X11 proxy and a dispatcher that keeps processing events: every
\* wakeup() call that stored the flag goes on to send its ClientMessage
SpecWakeupLive ==
    /\ Init
    /\ [][NextWakeupLive]_wkvars
    /\ WF_wkvars(x11_ClientMessage_Load)
    /\ WF_wkvars(x11_ClientMessage_Store)
    /\ \A p \in Proxies : WF_wkvars(wakeup_Send(p))


\* the X11 dispatcher receiving pointer events for one window
SpecCursor == Init /\ [][NextCursor]_cuvars



\* the X11 dispatcher receiving ConfigureNotify events for one window
SpecConfigure == Init /\ [][NextConfigure]_cfvars



\* the X11 dispatcher receiving key events for one window
SpecKey == Init /\ [][NextKey]_kyvars



\* the window procedure receiving the button messages of one window
SpecMouse == Init /\ [][NextMouse]_msvars



\* the window procedure receiving the DPI messages of one window
SpecDpi == Init /\ [][NextDpi]_dpvars



\* the Cocoa run loop calling the Handler
SpecCocoa == Init /\ [][NextCocoa]_covars



\* the loop thread calling wait_until_time_or_msg
SpecTimeout == Init /\ [][NextTimeout]_tmvars



\* the loop thread and the window procedures borrowing the runner
SpecBorrow == Init /\ [][NextBorrow]_rbvars



\* Windows dropped on any thread while the X11 dispatcher runs
SpecDrop == Init /\ [][NextDrop]_wdvars



\* the window procedure receiving the mouse messages of one window
SpecEnter == Init /\ [][NextEnter]_mevars


TypeOK ==
    /\ runner_some \in BOOLEAN
    /\ runner_state \in {New, HandlingEvents} \cup {Idle(t) : t \in Instants}
                          \cup {DeferredNewEvents(t) : t \in Instants}
    /\ control_flow \in ControlFlow
    /\ in_modal_loop \in BOOLEAN
    /\ Len(delivered) <= MaxTrace
    /\ next_id \in 1 .. MaxMsgs + 1
    /\ now \in Instants
    /\ proxy_pc \in [Proxies -> 0 .. MaxMsgs]
    /\ dropped \in BOOLEAN
    /\ \A r \in returned : r.id \in 1 .. MaxMsgs /\ r.ok \in BOOLEAN /\ r.sent \in BOOLEAN
    /\ pending_wakeup \in BOOLEAN
    /\ loop_alive \in BOOLEAN
    /\ xpc \in {"next", "store"}
    /\ wakeup_pc \in [Proxies -> {"idle", "send"}]
    /\ awakened \in 0 .. MaxWakeups
    /\ owed \subseteq Proxies
    /\ pc \in {"norun", "flush", "new_events", "peek", "get_message", "wait_until",
               "destroy", "modal", "paint_peek", "paint_wait"}

\* ---- reading the delivered sequence --------------------------------------
N == Len(delivered)
Kind(i) == delivered[i].ev.k
IsEvent(i) == Kind(i) \notin Lifecycle
CountKind(k) == Cardinality({i \in 1 .. N : Kind(i) = k})

\* the position of the last lifecycle event before position i, or 0
PrevLifecycle(i) ==
    LET S == {j \in 1 .. i - 1 : Kind(j) \in Lifecycle}
    IN IF S = {} THEN 0 ELSE CHOOSE j \in S : \A k \in S : k <= j

\* the time at which the EventsCleared that last closed a turn from
\* HandlingEvents before position i was delivered (NoTime if there is none)
IdleSince(i) ==
    LET S == {j \in 1 .. i - 1 : Kind(j) = "EventsCleared" /\ delivered[j].st = "HandlingEvents"}
    IN IF S = {} THEN NoTime ELSE delivered[CHOOSE j \in S : \A k \in S : k <= j].at

\* the callback was last called with the runner not handling events
\* (EventsCleared closes the turn; a redraw can be delivered after it)
TurnClosedAt(i) ==
    \/ Kind(i) = "EventsCleared"
    \/ IsEvent(i) /\ delivered[i].st # "HandlingEvents"

\* C1: within one run_return call the lifecycle events delivered to the
\* callback alternate NewEvents, EventsCleared, starting with
\* NewEvents(Init): a NewEvents is delivered only when no turn is open, it is
\* NewEvents(Init) exactly when it is the first of its run, and an
\* EventsCleared is delivered only when a turn is open.
C1_LifecycleAlternates ==
    \A i \in 1 .. N :
        LET p == PrevLifecycle(i)
        IN /\ Kind(i) = "NewEvents" =>
                /\ p # 0 => Kind(p) \in {"EventsCleared", "LoopDestroyed"}
                /\ delivered[i].ev.cause = "Init" <=> (p = 0 \/ Kind(p) = "LoopDestroyed")
           /\ Kind(i) = "EventsCleared" => p # 0 /\ Kind(p) = "NewEvents"

C1_Witness ==
    /\ CountKind("NewEvents") >= 2
    /\ CountKind("EventsCleared") >= 2
    /\ \E i \in 1 .. N : IsEvent(i)

\* C2 (as claimed): every window, device or user event is delivered while
\* the runner is in HandlingEvents.
C2_Original ==
    \A i \in 1 .. N : IsEvent(i) => delivered[i].st = "HandlingEvents"

\* C2 (amended): every event that goes through process_event is delivered
\* while the runner is in HandlingEvents; the only events delivered in
\* another state are RedrawRequested events that WM_PAINT or the
\* redraw-without-NewEvents message hand to the callback directly while
\* the runner is Idle or DeferredNewEvents, after the EventsCleared of the
\* turn and with no NewEvents.
C2_OnlyRedrawOutsideTurn ==
    \A i \in 1 .. N :
        IsEvent(i) /\ delivered[i].st # "HandlingEvents" =>
            /\ Kind(i) = "RedrawRequested"
            /\ delivered[i].st \in {"Idle", "DeferredNewEvents"}
            /\ PrevLifecycle(i) # 0 /\ Kind(PrevLifecycle(i)) = "EventsCleared"

C2_Witness ==
    /\ \E i \in 1 .. N : Kind(i) = "RedrawRequested" /\ delivered[i].st = "DeferredNewEvents"
    /\ \E i \in 1 .. N : Kind(i) = "RedrawRequested" /\ delivered[i].st = "HandlingEvents"

\* C3 (as claimed): once LoopDestroyed has been delivered nothing is
\* delivered any more.
C3_Original ==
    \A i \in 1 .. N : Kind(i) = "LoopDestroyed" => i = N

\* C3 (amended): every run_return call that ends delivers LoopDestroyed
\* exactly once, as its last event; what is delivered after it is delivered
\* by a later run_return call, which starts again with NewEvents(Init).
C3_LoopDestroyedEndsRun ==
    /\ CountKind("LoopDestroyed") = IF pc = "norun" THEN runs ELSE runs - 1
    /\ pc = "norun" /\ runs > 0 => Kind(N) = "LoopDestroyed"
    /\ \A i \in 1 .. N - 1 :
          Kind(i) = "LoopDestroyed" => delivered[i + 1].ev = NewEvents("Init", NoTime, NoTime)

\* an event sent after the first run ended is delivered by the second run
C3_Witness ==
    \E i \in 1 .. N - 2 :
        /\ Kind(i) = "LoopDestroyed"
        /\ Kind(i + 2) = "WindowEvent" /\ delivered[i + 2].ev.by = 0

\* C4: the loop does not stop in the middle of a turn: it goes on to
\* LoopDestroyed only from a PeekMessageW that found the queue empty, and
\* LoopDestroyed is delivered only after the EventsCleared that closed the
\* last turn, also when the callback set Exit while handling an event.
C4_ExitAfterEventsCleared ==
    /\ [](\A i \in 1 .. N :
            Kind(i) = "LoopDestroyed" =>
                PrevLifecycle(i) # 0 /\ Kind(PrevLifecycle(i)) = "EventsCleared")
    /\ [][pc = "peek" /\ pc' = "destroy" => msgq = <<>> /\ ~msg_unprocessed]_vars

\* Exit set while handling NewEvents, a queued event still delivered, then
\* EventsCleared, then LoopDestroyed
C4_Witness ==
    \E i \in 1 .. N - 3 :
        /\ delivered[i].cf = Exit /\ Kind(i) = "NewEvents"
        /\ Kind(i + 1) = "WindowEvent"
        /\ Kind(i + 2) = "EventsCleared"
        /\ Kind(i + 3) = "LoopDestroyed"

\* C5: cold start.  If nothing was ever queued, sent or buffered and the
\* callback sets Exit while handling NewEvents(Init), the first run delivers
\* exactly NewEvents(Init), EventsCleared, LoopDestroyed.
ColdStart == <<NewEvents("Init", NoTime, NoTime), EventsCleared, LoopDestroyed>>

C5_ColdStart ==
    (runs = 1 /\ next_id = 1 /\ modals = 0 /\ N >= 1 /\ delivered[1].cf = Exit) =>
        /\ N <= 3
        /\ \A i \in 1 .. N : delivered[i].ev = ColdStart[i]
        /\ pc = "norun" => N = 3

C5_Witness ==
    runs = 1 /\ next_id = 1 /\ modals = 0 /\ pc = "norun" /\ N = 3 /\ delivered[1].cf = Exit

\* C6 (as claimed): a NewEvents delivered at or after the deadline d of the
\* WaitUntil(d) that the previous EventsCleared left is
\* ResumeTimeReached{start, d} with start the time that EventsCleared was
\* delivered.
C6_Original ==
    \A i \in 2 .. N :
        (/\ Kind(i - 1) = "EventsCleared" /\ delivered[i - 1].cf.t = "WaitUntil"
         /\ Kind(i) = "NewEvents" /\ delivered[i].at >= delivered[i - 1].cf.d) =>
            delivered[i].ev =
                NewEvents("ResumeTimeReached", delivered[i - 1].at, delivered[i - 1].cf.d)

\* C6 (amended): ... is ResumeTimeReached{start, d} with start the time at
\* which the runner last went from HandlingEvents to Idle (an EventsCleared
\* that events_cleared delivers from DeferredNewEvents keeps the older
\* start); the next lifecycle event is the EventsCleared of that turn.
C6_ResumeTimeReached ==
    \A i \in 2 .. N :
        (/\ Kind(i - 1) = "EventsCleared" /\ delivered[i - 1].cf.t = "WaitUntil"
         /\ Kind(i) = "NewEvents" /\ delivered[i].at >= delivered[i - 1].cf.d) =>
            /\ delivered[i].ev =
                  NewEvents("ResumeTimeReached", IdleSince(i), delivered[i - 1].cf.d)
            /\ i < N /\ Kind(i + 1) \in Lifecycle => Kind(i + 1) = "EventsCleared"

C6_Witness ==
    \E i \in 2 .. N - 1 :
        /\ Kind(i - 1) = "EventsCleared" /\ delivered[i - 1].cf.t = "WaitUntil"
        /\ delivered[i].ev.cause = "ResumeTimeReached"
        /\ Kind(i + 1) = "EventsCleared"

\* C7 (as claimed): under WaitUntil(d), whatever is delivered before d after
\* the turn was closed is NewEvents(WaitCancelled{start, Some(d)}), and the
\* event that cancelled the wait comes right after it.
C7_Original ==
    \A i \in 2 .. N :
        (/\ TurnClosedAt(i - 1) /\ delivered[i - 1].cf.t = "WaitUntil"
         /\ delivered[i].at < delivered[i - 1].cf.d) =>
            /\ delivered[i].ev =
                  NewEvents("WaitCancelled", IdleSince(i), delivered[i - 1].cf.d)
            /\ i < N /\ IsEvent(i + 1)

\* C7 (amended): ... is either a RedrawRequested that WM_PAINT or the
\* redraw-without-NewEvents message hands to the callback directly, with no
\* NewEvents, or NewEvents(WaitCancelled{start, Some(d)}) with the event
\* that went through process_event right after it.
C7_WaitCancelledSome ==
    \A i \in 2 .. N :
        (/\ TurnClosedAt(i - 1) /\ delivered[i - 1].cf.t = "WaitUntil"
         /\ delivered[i].at < delivered[i - 1].cf.d) =>
            \/ Kind(i) = "RedrawRequested" /\ delivered[i].st # "HandlingEvents"
            \/ /\ delivered[i].ev =
                     NewEvents("WaitCancelled", IdleSince(i), delivered[i - 1].cf.d)
               /\ i < N /\ IsEvent(i + 1) /\ delivered[i + 1].st = "HandlingEvents"

C7_Witness ==
    \E i \in 2 .. N - 1 :
        /\ Kind(i - 1) = "EventsCleared" /\ delivered[i - 1].cf.t = "WaitUntil"
        /\ delivered[i].ev.cause = "WaitCancelled" /\ delivered[i].ev.resume # NoTime
        /\ Kind(i + 1) = "WindowEvent"

\* C8 (as claimed): under Wait, the next thing delivered after the turn was
\* closed (unless WM_QUIT ends the loop) is
\* NewEvents(WaitCancelled{start, None}), then the event, and the turn is
\* closed by EventsCleared before the loop ends.
C8_Original ==
    \A i \in 2 .. N :
        (/\ TurnClosedAt(i - 1) /\ delivered[i - 1].cf = Wait
         /\ Kind(i) # "LoopDestroyed") =>
            /\ delivered[i].ev = NewEvents("WaitCancelled", IdleSince(i), NoTime)
            /\ i < N /\ IsEvent(i + 1)
            /\ \A j \in i + 1 .. N :
                  Kind(j) = "LoopDestroyed" => \E k \in i + 1 .. j - 1 : Kind(k) = "EventsCleared"

\* C8 (amended): ... is either a RedrawRequested that WM_PAINT or the
\* redraw-without-NewEvents message hands to the callback directly, with no
\* NewEvents, or NewEvents(WaitCancelled{start, None}), then the native or
\* user event that went through process_event, and the turn is closed by
\* EventsCleared before the loop ends.
C8_WaitCancelledNone ==
    \A i \in 2 .. N :
        (/\ TurnClosedAt(i - 1) /\ delivered[i - 1].cf = Wait
         /\ Kind(i) # "LoopDestroyed") =>
            \/ Kind(i) = "RedrawRequested" /\ delivered[i].st # "HandlingEvents"
            \/ /\ delivered[i].ev = NewEvents("WaitCancelled", IdleSince(i), NoTime)
               /\ i < N /\ IsEvent(i + 1) /\ delivered[i + 1].st = "HandlingEvents"
               /\ \A j \in i + 1 .. N :
                     Kind(j) = "LoopDestroyed" =>
                         \E k \in i + 1 .. j - 1 : Kind(k) = "EventsCleared"

\* a user event sent through the proxy wakes the loop
C8_Witness ==
    \E i \in 2 .. N - 2 :
        /\ Kind(i - 1) = "EventsCleared" /\ delivered[i - 1].cf = Wait
        /\ delivered[i].ev.cause = "WaitCancelled" /\ delivered[i].ev.resume = NoTime
        /\ Kind(i + 1) = "UserEvent"
        /\ Kind(i + 2) = "EventsCleared"

\* C9: a turn that starts from Idle under Poll delivers NewEvents(Poll), and
\* if no native message is there to dispatch, the next thing delivered is
\* EventsCleared.
C9_PollTurn ==
    [][/\ (pc = "new_events" /\ runner_state.s = "Idle" /\ control_flow = Poll /\ pc' = "peek") =>
             /\ Len(delivered') = N + 1
             /\ delivered'[N + 1].ev = NewEvents("Poll", NoTime, NoTime)
       /\ (/\ N >= 1 /\ delivered[N].ev = NewEvents("Poll", NoTime, NoTime)
           /\ msgq = <<>> /\ ~msg_unprocessed /\ delivered' # delivered) =>
             delivered'[N + 1].ev = EventsCleared]_vars

C9_Witness ==
    \E i \in 1 .. N - 1 :
        /\ delivered[i].ev = NewEvents("Poll", NoTime, NoTime)
        /\ delivered[i].st = "Idle"
        /\ Kind(i + 1) = "EventsCleared"

\* C10 (as claimed): an event that a window procedure running inside the
\* callback pushed onto the buffer is delivered before the next
\* EventsCleared: no EventsCleared is delivered while an event produced
\* before it is still in the buffer.
C10_BufferFlushedBeforeCleared ==
    \A i \in 1 .. N :
        Kind(i) = "EventsCleared" =>
            \A b \in 1 .. Len(buffer) : buffer[b].by = 0 \/ buffer[b].by >= i
\* ---- the proxy ------------------------------------------------------------
\* the payloads delivered as UserEvent, in the order of delivery
UserDelivered ==
    LET u == SelectSeq(delivered, LAMBDA e : e.ev.k = "UserEvent")
    IN [i \in 1 .. Len(u) |-> u[i].ev.id]

\* the wake messages the loop thread has still to handle
WakeMessages ==
    Cardinality({i \in 1 .. Len(msgq) : msgq[i].k = "User"})
        + (IF msg_unprocessed /\ msg.k = "User" THEN 1 ELSE 0)

C12_HandlerNeverBlocks ==
    (pc \in {"peek", "modal"} /\ ~msg_unprocessed /\ msgq # <<>> /\ Head(msgq).k = "User")
        => chan # <<>>

\* C13: a send_event call made after the loop was dropped returns Closed
\* and enqueues nothing, and no call returns Ok for a payload that was
\* discarded because the loop was dropped during the call.
C13_ClosedAfterDrop ==
    /\ dropped => chan = <<>>
    /\ \A r \in returned : r.ok => r.sent


\* ---- X11 wakeup -----------------------------------------------------------
\* C14: Awakened is delivered only by the step in which the dispatcher,
\* having loaded pending_wakeup as set, clears it; the flag goes from set to
\* clear exactly in the steps that deliver one Awakened; there are never
\* more Awakened events than wakeup() calls.
C14_AwakenedPerTransition ==
    /\ [](awakened <= wakeup_calls)
    /\ [][/\ (awakened' # awakened) =>
                (xpc = "store" /\ pending_wakeup /\ awakened' = awakened + 1)
          /\ (pending_wakeup /\ ~pending_wakeup') <=> (awakened' = awakened + 1)
          /\ (xpc = "next" /\ ~pending_wakeup /\ Len(xqueue') < Len(xqueue)) =>
                (xpc' = "next" /\ awakened' = awakened)]_wkvars

\* two wakeups were coalesced into one Awakened (a ClientMessage was then
\* processed with the flag clear), and a later one was delivered by itself
C14_Witness ==
    /\ awakened = 2 /\ wakeup_calls = 3
    /\ xqueue = <<>> /\ xpc = "next" /\ ~pending_wakeup
    /\ \A p \in Proxies : wakeup_pc[p] = "idle"

\* C15: every wakeup() call that stored the flag is followed by an Awakened
\* delivered after the store.
C15_NoWakeupLost == \A p \in Proxies : (p \in owed) ~> (p \notin owed)

\* a wakeup() stored the flag between the dispatcher's load and its store,
\* so that the dispatcher overwrote it, and then sent its ClientMessage
C15_Witness ==
    /\ xpc = "store" /\ pending_wakeup
    /\ owed = Proxies
    /\ Len(xqueue) = 1 /\ wakeup_pc = [p \in Proxies |-> IF p = 1 THEN "idle" ELSE "send"]


\* ---- X11 windows ----------------------------------------------------------
\* C16: Destroyed is delivered at most once for every window, also when a
\* second DestroyNotify arrives for it.
C16_DestroyedOnce ==
    \A w \in WindowIds :
        Cardinality({i \in 1 .. Len(xdelivered) :
                        xdelivered[i] = WinEvent("Destroyed", w)}) <= 1

\* C17: once Destroyed{W} has been delivered, no native event that names W
\* (other than a DestroyNotify) produces an event for W.
C17_NothingAfterDestroyed ==
    \A i, j \in 1 .. Len(xdelivered) :
        (i < j /\ xdelivered[i].kind = "Destroyed" /\ xdelivered[j].window = xdelivered[i].window)
            => xdelivered[j].kind = "Destroyed"


\* ---- XDnD -----------------------------------------------------------------
\* the events taken from the queue, and what was done for them, in order
DndInputs == SelectSeq(dnd_log, LAMBDA e : e.d = "in")
DndOutputs == SelectSeq(dnd_log, LAMBDA e : e.d # "in")
DndEvents == SelectSeq(dnd_log, LAMBDA e : e.d = "out")

HappyPath ==
    <<In(DndMsg("Enter", "uri", NoResult)), In(DndMsg("Position", "", NoResult)),
      In(DndMsg("SelectionNotify", "", Parsed(<<"/a", "/b">>))),
      In(DndMsg("Drop", "", NoResult))>>

\* C18: Enter with the uri-list type, Position, SelectionNotify carrying
\* [/a, /b], Drop: status Accepted is sent on Position, HoveredFile(/a),
\* HoveredFile(/b) are delivered on SelectionNotify, and DroppedFile(/a),
\* DroppedFile(/b) then finished Accepted on Drop, and nothing else.
C18_DndHappyPath ==
    DndInputs = HappyPath =>
        dnd_log = <<HappyPath[1],
                    HappyPath[2], Sent("Status", "Accepted"),
                    HappyPath[3], Out("HoveredFile", "/a"), Out("HoveredFile", "/b"),
                    HappyPath[4], Out("DroppedFile", "/a"), Out("DroppedFile", "/b"),
                    Sent("Finished", "Accepted")>>

C18_Witness ==
    /\ DndInputs = HappyPath
    /\ DndEvents = <<Out("HoveredFile", "/a"), Out("HoveredFile", "/b"),
                     Out("DroppedFile", "/a"), Out("DroppedFile", "/b")>>

\* C19: between an Enter and the Drop or Leave that ends the drag, no path
\* is reported by HoveredFile twice.
C19_HoveredOnce ==
    \A i, j \in 1 .. Len(dnd_log) :
        (/\ i < j
         /\ dnd_log[i].d = "out" /\ dnd_log[i].k = "HoveredFile"
         /\ dnd_log[j] = dnd_log[i])
            => \E n \in (i + 1) .. (j - 1) :
                   dnd_log[n].d = "in" /\ dnd_log[n].k \in {"Enter", "Drop", "Leave"}


\* ---- X11 scroll axes ------------------------------------------------------
\* the sum of the emitted components with the sign of the axis taken out,
\* times the increment; and the distance from the reset, in the same unit
AxisSign == IF axis.orientation = "Vertical" THEN 0 - 1 ELSE 1
SignedSum == axis.increment * AxisSign * wheel_sum
Distance == Unit * (valuator - reset_position)

\* C20 as stated: the emitted components add up to exactly
\* (position - position at reset) / increment, negated for a vertical axis.
C20_Original == axis # NoAxis => SignedSum = Distance

\* C20, amended: each component is a quotient rounded to f32, so the sum is
\* (position - position at reset) / increment up to the rounding of each
\* component (at most 2^-MantBits of its size), and exactly that when the
\* pointer has only moved by multiples of the increment that are small
\* enough to be exact.
C20_SumUpToRounding ==
    axis # NoAxis =>
        /\ (2 ^ MantBits) * Abs(SignedSum - Distance) <= Unit * travel
        /\ axis.increment = 1 => SignedSum = Distance

\* a vertical axis with increment 3 moved twice, and the rounded components
\* do not add up to the exact quotient
C20_Witness ==
    /\ axis.orientation = "Vertical" /\ axis.increment = 3
    /\ motions = 2 /\ travel = 3
    /\ wheel_sum < 0
    /\ SignedSum # Distance

\* C21 as stated: on a vertical axis of increment I, two consecutive valuator
\* events at 0 and at 2*I give two MouseWheel events that each carry
\* LineDelta(0, -1).
C21_Original ==
    \A i \in 1 .. Len(wheel_log) - 1 :
        (/\ axis.orientation = "Vertical"
         /\ wheel_log[i].x = 0 /\ wheel_log[i + 1].x = 2 * axis.increment)
        => /\ wheel_log[i].h = 0 /\ wheel_log[i].v = 0 - Unit
           /\ wheel_log[i + 1].h = 0 /\ wheel_log[i + 1].v = 0 - Unit

\* C21, amended: on a vertical axis of increment I, two consecutive valuator
\* events at 0 and at 2*I give two MouseWheel events; the second carries
\* LineDelta(0, -2), and the first carries LineDelta(0, p / I) for the
\* position p the axis had before (rounded to f32), which is LineDelta(0, 0)
\* when the axis was at 0.
C21_ScrollScenario ==
    \A i \in 1 .. Len(wheel_log) - 1 :
        (/\ axis.orientation = "Vertical"
         /\ wheel_log[i].x = 0 /\ wheel_log[i + 1].x = 2 * axis.increment)
        => /\ wheel_log[i + 1].h = 0 /\ wheel_log[i + 1].v = 0 - 2 * Unit
           /\ wheel_log[i].h = 0
           /\ (2 ^ MantBits) * Abs(axis.increment * wheel_log[i].v
                                     - Unit * wheel_log[i].from)
                  <= Unit * wheel_log[i].from
           /\ wheel_log[i].from = 0 => wheel_log[i].v = 0

\* a vertical axis of increment 2 that was at 1 has received the valuator
\* values 0 and 4
C21_Witness ==
    /\ axis.orientation = "Vertical" /\ axis.increment = 2
    /\ Len(wheel_log) = 2
    /\ wheel_log[1].from = 1
    /\ wheel_log[1].x = 0 /\ wheel_log[2].x = 4

\* ---- X11 cursor position --------------------------------------------------
\* the events of a sequence that are not CursorMoved
RECURSIVE NotMoved(_)
NotMoved(evs) ==
    IF evs = <<>> THEN <<>>
    ELSE (IF Head(evs).kind # "CursorMoved" THEN <<Head(evs)>> ELSE <<>>)
             \o NotMoved(Tail(evs))

\* C22: XI_Motion for a registered window at the cached position emits no
\* CursorMoved and leaves cursor_pos as it was, at another position emits
\* exactly one CursorMoved, first; in both cases it emits one MouseWheel or
\* AxisMotion event for every valuator set in the event.
C22_MotionCoalesced ==
    (cur_last.type = "Motion" /\ cur_last.registered) =>
        /\ cur_last.pos = cur_last.before =>
               /\ MovedPositions(cur_last.emitted) = <<>>
               /\ cur_last.after = cur_last.before
        /\ cur_last.pos # cur_last.before =>
               /\ MovedPositions(cur_last.emitted) = <<cur_last.pos>>
               /\ cur_last.emitted[1].kind = "CursorMoved"
        /\ Len(NotMoved(cur_last.emitted)) = Cardinality(cur_last.mask)
        /\ \A i \in cur_last.mask :
               \E n \in 1 .. Len(cur_last.emitted) :
                   /\ cur_last.emitted[n].axis = i
                   /\ cur_last.emitted[n].kind =
                          IF i \in ScrollAxes THEN "MouseWheel" ELSE "AxisMotion"

\* a motion at the cached position with both valuators set has emitted the
\* two axis events and nothing else
C22_Witness ==
    /\ cur_last.type = "Motion" /\ cur_last.registered
    /\ cur_last.pos = cur_last.before
    /\ cur_last.mask = {0, 1}
    /\ Len(cur_last.emitted) = 2
    /\ cur_last.after = cur_last.pos

\* C23: for a registered window the cached cursor_pos is the position of the
\* last CursorMoved emitted for it (None when none was emitted), and no two
\* consecutive CursorMoved events carry the same position, those emitted on
\* XI_Enter and XI_FocusIn included.
C23_CursorPosIsLastMoved ==
    cur_window = "registered" =>
        /\ cursor_pos = IF cur_moved = <<>> THEN NoPos ELSE cur_moved[Len(cur_moved)]
        /\ \A n \in 1 .. Len(cur_moved) - 1 : cur_moved[n] # cur_moved[n + 1]

\* ---- X11 ConfigureNotify --------------------------------------------------
\* the kinds of the events emitted for the last ConfigureNotify
ConfigKinds == [n \in 1 .. Len(cfg_last.emitted) |-> cfg_last.emitted[n].kind]

\* C24: a ConfigureNotify for a registered window emits Resized exactly when
\* its size differs from the cached config.size or none is cached, leaves
\* config.size equal to its size, and when it emits both Resized and Moved
\* it emits Resized first.
C24_ResizedBeforeMoved ==
    cfg_last.registered =>
        /\ ConfigKinds \in {<<>>, <<"Resized">>, <<"Moved">>, <<"Resized", "Moved">>}
        /\ (\E n \in 1 .. Len(ConfigKinds) : ConfigKinds[n] = "Resized")
               <=> cfg_last.before.size # cfg_last.size
        /\ \A n \in 1 .. Len(ConfigKinds) :
               ConfigKinds[n] = "Resized" => cfg_last.emitted[n].value = cfg_last.size
        /\ cfg_last.after.size = cfg_last.size

\* a synthetic ConfigureNotify changed both the cached size and the cached
\* position, and Resized and Moved were emitted
C24_Witness ==
    /\ cfg_last.registered /\ cfg_last.synthetic
    /\ cfg_last.before.size # NoPos /\ cfg_last.before.size # cfg_last.size
    /\ cfg_last.before.position # NoPos /\ cfg_last.before.position # cfg_last.position
    /\ Len(cfg_last.emitted) = 2

KeyIndices(kind) == {n \in 1 .. Len(key_last.emitted) : key_last.emitted[n].kind = kind}

\* C26: a key event filtered by the input method emits nothing; an unfiltered
\* KeyPress emits its KeyboardInput (there is one when the keycode is not 0)
\* before every ReceivedCharacter; no ReceivedCharacter is emitted for a
\* KeyRelease or for a window without an input context.
C26_KeyboardInputBeforeCharacters ==
    /\ key_last.filtered => key_last.emitted = <<>>
    /\ \A n \in KeyIndices("KeyboardInput"), m \in KeyIndices("ReceivedCharacter") : n < m
    /\ (key_last.keycode # 0 /\ KeyIndices("ReceivedCharacter") # {}) =>
           KeyIndices("KeyboardInput") = {1}
    /\ key_last.keycode = 0 => KeyIndices("KeyboardInput") = {}
    /\ key_last.type = "KeyRelease" => KeyIndices("ReceivedCharacter") = {}
    /\ ~key_last.has_ic => KeyIndices("ReceivedCharacter") = {}
    /\ KeyIndices("ReceivedCharacter") # {} =>
           [n \in 1 .. Len(key_last.written) |->
               key_last.emitted[n + Cardinality(KeyIndices("KeyboardInput"))].chr]
               = key_last.written

\* an unfiltered KeyPress with a keycode was looked up as two characters and
\* three events were emitted
C26_Witness ==
    /\ key_last.type = "KeyPress" /\ ~key_last.filtered /\ key_last.has_ic
    /\ key_last.keycode = 9
    /\ Len(key_last.written) = 2
    /\ Len(key_last.emitted) = 3

\* ---- Win32 mouse capture --------------------------------------------------
\* C27: mouse_buttons_down is the number of buttons now held that were
\* pressed on the window, and ReleaseCapture is called by a button-up message
\* exactly when that number has come back to zero, never while such a button
\* is still held.
C27_CaptureCounted ==
    /\ mouse_buttons_down = Cardinality(mouse_held)
    /\ mouse_last.msg = "Up" => (mouse_last.released <=> mouse_held = {})

\* ---- Win32 DPI changes ----------------------------------------------------
\* size a is size b multiplied by new / old
Rescaled(a, b, old, new) ==
    IF b = NoSize THEN a = NoSize
    ELSE a # NoSize /\ a.num * b.den * old = b.num * new * a.den

\* C28: the HiDpiFactorChanged of a DPI message is sent before the Resized
\* that the SetWindowPos of its handler causes, and WM_DPICHANGED rescales
\* min_size and max_size by new_dpi / old_dpi whenever it does not suppress
\* the resize.
C28_HiDpiBeforeResized ==
    /\ \A i \in 1 .. Len(dpi_log), j \in 1 .. Len(dpi_log) :
           (/\ dpi_log[i].kind = "HiDpiFactorChanged" /\ dpi_log[j].kind = "Resized"
            /\ dpi_log[i].cause = dpi_log[j].cause) => i < j
    /\ (dpi_last.msg = "WM_DPICHANGED" /\ ~dpi_last.suppress) =>
           /\ Rescaled(min_size, dpi_last.min_before, dpi_last.old, dpi_last.new)
           /\ Rescaled(max_size, dpi_last.max_before, dpi_last.old, dpi_last.new)

\* ---- Cocoa ----------------------------------------------------------------
\* C29: once the callback has set ControlFlow::Exit, Handler::wakeup hands no
\* NewEvents to the callback: no NewEvents is delivered with the control
\* flow at Exit.
C29_NoNewEventsAfterExit ==
    \A i \in 1 .. Len(co_delivered) :
        co_delivered[i].k = "NewEvents" => co_delivered[i].cf # Exit

\* C30: the events queued in PendingEvents are delivered in the order they
\* were queued and before the EventsCleared of their turn: no queued event
\* is delivered after an EventsCleared without a NewEvents in between.
C30_PendingBeforeEventsCleared ==
    /\ \A i \in 1 .. Len(co_delivered), j \in 1 .. Len(co_delivered) :
           (i < j /\ co_delivered[i].id # 0 /\ co_delivered[j].id # 0)
           => co_delivered[i].id < co_delivered[j].id
    /\ \A i \in 1 .. Len(co_delivered) - 1 :
           co_delivered[i].k = "EventsCleared"
           => co_delivered[i + 1].k \in {"NewEvents", "LoopDestroyed"}

\* ---- C31 ------------------------------------------------------------------
\* the control flow makes events_cleared silent at time t
QuietControlFlow(cf, t) == cf \in {Wait, Exit} \/ (cf.t = "WaitUntil" /\ t < cf.d)

\* the step is the events_cleared call of run_return (PeekMessageW found
\* nothing) or of the thread target's WM_PAINT in the modal loop
EventsClearedStep ==
    \/ pc = "peek" /\ ~msg_unprocessed /\ msgq = <<>> /\ pc' # "peek"
    \/ pc = "paint_peek" /\ msgq = <<>> /\ pc' # "paint_peek"

\* C31: events_cleared called while the runner is DeferredNewEvents(t0) under
\* Wait, under Exit, or under WaitUntil(d) before d calls the callback for
\* nothing and leaves the runner Idle(t0): the start t0 of the wait is kept
\* (in the modal loop new_events follows at once and defers again, with t0).
C31_QuietWakeupKeepsStart ==
    [][(/\ EventsClearedStep
        /\ runner_state.s = "DeferredNewEvents"
        /\ QuietControlFlow(control_flow, now))
       => /\ delivered' = delivered
          /\ control_flow' = control_flow
          /\ runner_state'.at = runner_state.at
          /\ pc = "peek" => runner_state' = Idle(runner_state.at)
          /\ pc = "paint_peek" => runner_state'.s \in {"Idle", "DeferredNewEvents"}]_vars

\* The loop is back in GetMessageW after a wake-up whose only message was a
\* paint request (RedrawRequested was delivered directly, the NewEvents stayed
\* deferred), and the runner is Idle with the start of the wait, now past.
C31_Witness ==
    /\ pc = "get_message" /\ ~panicked
    /\ runner_state.s = "Idle" /\ runner_state.at < now
    /\ delivered # <<>>
    /\ delivered[Len(delivered)].ev.k = "RedrawRequested"
    /\ delivered[Len(delivered)].st = "DeferredNewEvents"
    /\ delivered[Len(delivered)].at = now

\* ---- C32 ------------------------------------------------------------------
\* the remaining time in milliseconds, rounded up (in unbounded arithmetic)
CeilMillis(dur) == dur.secs * 1000 + (dur.nanos + 999999) \div 1000000

\* C32: the timeout handed to MsgWaitForMultipleObjectsEx for a remaining
\* time r is ceil(r in ms) - 1, not below 0, when ceil(r) fits in a DWORD, and
\* INFINITE when it does not.
C32_TimeoutClampedToInfinite ==
    (tm_last.called /\ ~tm_last.past) =>
        LET c == CeilMillis(tm_last.dur)
        IN IF c <= DWORD_max_value
           THEN tm_last.timeout = (IF c = 0 THEN 0 ELSE c - 1)
           ELSE tm_last.timeout = INFINITE

\* ---- C33 ------------------------------------------------------------------
\* C33: every KeyboardInput (KeyPress / KeyRelease) and every
\* DeviceEvent::Key (XI_RawKeyPress / XI_RawKeyRelease) carries the scancode
\* keycode - 8 of a keycode that is at least 8; the subtraction never wraps
\* around and never aborts the dispatcher.
C33_ScancodeNeverWraps ==
    /\ ~key_panicked
    /\ \A n \in DOMAIN key_last.emitted :
          key_last.emitted[n].kind \in {"KeyboardInput", "Key"} =>
              /\ key_last.keycode >= 8
              /\ key_last.emitted[n].scancode = [hi |-> 0, lo |-> key_last.keycode - 8]

\* ---- C34 ------------------------------------------------------------------
\* C34: Handler::wakeup never aborts the loop, and the NewEvents it hands to
\* the callback under Poll, Wait or WaitUntil has the cause of that control
\* flow: Poll under Poll, WaitCancelled under Wait, WaitCancelled or
\* ResumeTimeReached under WaitUntil.
C34_WakeupTotal ==
    /\ ~co_panicked
    /\ \A i \in 1 .. Len(co_delivered) :
          (co_delivered[i].k = "NewEvents" /\ co_delivered[i].v # "Init") =>
              /\ co_delivered[i].cf = Poll => co_delivered[i].v = "Poll"
              /\ co_delivered[i].cf = Wait => co_delivered[i].v = "WaitCancelled"
              /\ co_delivered[i].cf.t = "WaitUntil" =>
                     co_delivered[i].v \in {"WaitCancelled", "ResumeTimeReached"}

\* ---- C35 ------------------------------------------------------------------
\* C35: once the runner's control flow is Exit it stays Exit until the next
\* run_return call builds a new runner, whatever the callback writes while it
\* handles the events that are still delivered.
C35_ExitIsSticky ==
    [][control_flow = Exit => (control_flow' = Exit \/ (pc = "norun" /\ pc' = "flush"))]_vars

\* The callback set Exit while handling an event and was called again, with
\* EventsCleared, while it could still have written another value.
C35_Witness ==
    /\ control_flow = Exit /\ writes < MaxWrites
    /\ Len(delivered) >= 2
    /\ delivered[Len(delivered) - 1].cf = Exit
    /\ delivered[Len(delivered)].ev.k = "EventsCleared"
    /\ delivered[Len(delivered)].cf = Exit

\* ---- C36 ------------------------------------------------------------------
\* C36: process_event never finds the runner in DeferredNewEvents with the
\* control flow at Exit: the branch marked unreachable!() is never taken and
\* the loop thread does not panic there.
C36_UnreachableNotReached == ~panicked

\* ---- C37 ------------------------------------------------------------------
\* C37: no handler calls borrow_mut on the runner while it is borrowed: the
\* handlers that borrow unconditionally never run inside the user callback or
\* inside a hook that holds the borrow.
C37_NoSecondBorrow ==
    /\ ~rb_panicked
    /\ (rb_last.nested /\ rb_borrowed) => BorrowKind(rb_last.m) = "try_borrow_mut"

\* ---- C38 ------------------------------------------------------------------
\* the last message before position n of dnd_log that starts or ends a drag
\* session (0 when there is none)
RECURSIVE LastSessionMark(_)
LastSessionMark(n) ==
    IF n <= 1 THEN 0
    ELSE IF dnd_log[n - 1].d = "in" /\ dnd_log[n - 1].k \in {"Enter", "Drop", "Leave"}
         THEN n - 1
         ELSE LastSessionMark(n - 1)

\* C38: every DroppedFile reports a path parsed from a SelectionNotify that
\* arrived after the Enter of the session the Drop ends, and every
\* HoveredFile is emitted within a session: after its Enter and before the
\* Drop or Leave that ends it.
C38_DndSessionIsolation ==
    /\ \A n \in 1 .. Len(dnd_log) :
          (dnd_log[n].d = "out" /\ dnd_log[n].k = "DroppedFile") =>
              \E d \in 1 .. (n - 1), e \in 1 .. (n - 1), i \in 1 .. (n - 1) :
                  /\ e < i /\ i < d
                  /\ dnd_log[d].d = "in" /\ dnd_log[d].k = "Drop"
                  /\ LastSessionMark(n) = d
                  /\ LastSessionMark(d) = e
                  /\ dnd_log[e].k = "Enter"
                  /\ dnd_log[i].d = "in" /\ dnd_log[i].k = "SelectionNotify"
                  /\ \E p \in 1 .. Len(dnd_log[i].data.paths) :
                         dnd_log[i].data.paths[p] = dnd_log[n].v
    /\ \A n \in 1 .. Len(dnd_log) :
          (dnd_log[n].d = "out" /\ dnd_log[n].k = "HoveredFile") =>
              /\ LastSessionMark(n) # 0
              /\ dnd_log[LastSessionMark(n)].k = "Enter"

\* ---- C39 ------------------------------------------------------------------
\* C39: however the drop of a Window and the dispatcher's DestroyNotify for
\* it interleave, the registry entry of the window is removed once (by
\* whichever comes first), XDestroyWindow is called at most once, and it is
\* never called once the dispatcher has processed a DestroyNotify for it.
C39_DropAgainstDestroyNotify ==
    \A w \in DroppedIds :
        /\ wd_hist[w].removed <= 1
        /\ (wd_handle[w] \in {"removing", "dropped"} \/ wd_hist[w].notified) =>
               (wd_hist[w].removed = 1 /\ w \notin wd_registry)
        /\ wd_hist[w].destroy_calls <= 1
        /\ ~wd_hist[w].late

\* The platform destroyed window 1 and the dispatcher processed its
\* DestroyNotify before the Window was dropped: the drop found no entry and
\* called nothing; window 2 was dropped first and its DestroyNotify came after.
C39_Witness ==
    /\ wd_handle[1] = "dropped" /\ wd_hist[1].notified
    /\ wd_hist[1].removed = 1 /\ wd_hist[1].destroy_calls = 0
    /\ wd_handle[2] = "dropped" /\ wd_hist[2].notified
    /\ wd_hist[2].removed = 1 /\ wd_hist[2].destroy_calls = 1

\* ---- C40 ------------------------------------------------------------------
\* the CursorEntered and CursorLeft events sent so far
EnterLeave == SelectSeq(me_log, LAMBDA e : e.kind \in {"CursorEntered", "CursorLeft"})

\* the last CursorEntered or CursorLeft sent before position n of me_log
RECURSIVE LastEnterLeave(_)
LastEnterLeave(n) ==
    IF n <= 1 THEN "None"
    ELSE IF me_log[n - 1].kind \in {"CursorEntered", "CursorLeft"}
         THEN me_log[n - 1].kind
         ELSE LastEnterLeave(n - 1)

====
